---------------------------- MODULE Spec2Model ----------------------------
(***************************************************************************)
(* A model of react-url-query-parameter-store                              *)
(* (src/src/query-parameter-store.ts, lines 1-499): the QueryParamStore    *)
(* class, the useQueryParamStore hook that binds it to a component, and    *)
(* the Next.js router both talk to.                                        *)
(*                                                                         *)
(* The router (next/router) and the schema validator (zod) are libraries   *)
(* the store calls.  The router is modelled the way the repository's tests *)
(* drive it (next-router-mock): a navigation that succeeds stores the      *)
(* pathname and the query object it was given and emits                    *)
(* routeChangeComplete; a navigation may also reject.  The validator is    *)
(* modelled for the z.object schemas the tests declare.                    *)
(***************************************************************************)
EXTENDS Naturals, Sequences, FiniteSets, TLC

(***************************************************************************)
(* Query values.  A ParsedUrlQuery value is a string, a list of strings or *)
(* undefined; a payload handed to setQueryParams may also hold null.       *)
(* Every value is a record of one shape so that any two can be compared.   *)
(***************************************************************************)
Str(s) == [t |-> "string", s |-> s, l |-> <<>>]

List(l) == [t |-> "array", s |-> "", l |-> l]

Undefined == [t |-> "undefined", s |-> "", l |-> <<>>]

Null == [t |-> "null", s |-> "", l |-> <<>>]

\* The empty object {}.
EmptyQuery == <<>>

\* An object with the one key k.
Only(k, v) == [x \in {k} |-> v]

\* Object spread {...a, ...b}: the keys of both, b's value on a collision.
Spread(a, b) ==
  [k \in (DOMAIN a) \cup (DOMAIN b) |-> IF k \in DOMAIN b THEN b[k] ELSE a[k]]

\* The object without the keys of ks (delete obj[k] for each k).
Without(obj, ks) == [k \in (DOMAIN obj) \ ks |-> obj[k]]

\* lodash pick(obj, ks).
Pick(obj, ks) == [k \in (DOMAIN obj) \cap ks |-> obj[k]]

(***************************************************************************)
(* Schemas.  A schema gives each declared key a field: its type, whether   *)
(* it is optional, and its default if it has one.  hasShape tells a plain  *)
(* z.object (which has a shape property) from a wrapped one (a refined or  *)
(* transformed object, which has none).                                    *)
(***************************************************************************)
Field(type, optional, hasDefault, default) ==
  [type |-> type, optional |-> optional, hasDefault |-> hasDefault, default |-> default]

\* z.object({ status: z.string().default('all'), search: z.string().optional() })
DefaultSchema ==
  [name |-> "default", hasShape |-> TRUE,
   shape |-> [status |-> Field("string", FALSE, TRUE, Str("all")),
              search |-> Field("string", TRUE, FALSE, Undefined)]]

\* z.object({ status: z.string(), search: z.array(z.string()).optional() })
StrictSchema ==
  [name |-> "strict", hasShape |-> TRUE,
   shape |-> [status |-> Field("string", FALSE, FALSE, Undefined),
              search |-> Field("array", TRUE, FALSE, Undefined)]]

\* DefaultSchema under .refine(() => true): the same validation, no shape.
RefinedSchema ==
  [name |-> "refined", hasShape |-> FALSE,
   shape |-> [status |-> Field("string", FALSE, TRUE, Str("all")),
              search |-> Field("string", TRUE, FALSE, Undefined)]]

\* z.object({ extra: z.string().optional() }): the schema of a second store,
\* which declares a key that the schemas above do not.
OtherSchema ==
  [name |-> "other", hasShape |-> TRUE,
   shape |-> [extra |-> Field("string", TRUE, FALSE, Undefined)]]

Schemas == {DefaultSchema, StrictSchema}

SchemaKeys(sch) == DOMAIN sch.shape

\* Whether the input holds a defined value under k.
Given(input, k) == k \in DOMAIN input /\ input[k] # Undefined

\* One field's validation: an absent or undefined input takes the default,
\* or stays undefined when the field is optional; any other input must have
\* the field's type.
FieldOk(f, input, k) ==
  IF Given(input, k) THEN input[k].t = f.type ELSE f.hasDefault \/ f.optional

FieldValue(f, input, k) ==
  IF Given(input, k) THEN input[k]
  ELSE IF f.hasDefault THEN f.default ELSE Undefined

\* safeParse of a z.object that lets unknown keys through (passthrough).
SafeParsePassthrough(sch, input) ==
  LET ok == \A k \in SchemaKeys(sch) : FieldOk(sch.shape[k], input, k)
  IN [success |-> ok,
      data |-> IF ok
               THEN [k \in DOMAIN input |->
                       IF k \in SchemaKeys(sch) THEN FieldValue(sch.shape[k], input, k)
                       ELSE input[k]]
               ELSE EmptyQuery]

\* schema.safeParse(input) of a z.object: every field must validate; the data
\* holds the declared keys only (unknown keys are stripped), each one that
\* the input holds or that has a value.
SafeParse(sch, input) ==
  LET ok == \A k \in SchemaKeys(sch) : FieldOk(sch.shape[k], input, k)
      keys == {k \in SchemaKeys(sch) :
                 k \in DOMAIN input \/ FieldValue(sch.shape[k], input, k) # Undefined}
  IN [success |-> ok,
      data |-> IF ok THEN [k \in keys |-> FieldValue(sch.shape[k], input, k)]
               ELSE EmptyQuery]


(***************************************************************************)
(* Pathnames.  Router.pathname is the route's template, a list of          *)
(* segments: a static one, [name], [...name] or [[...name]].               *)
(***************************************************************************)
Seg(kind, name) == [kind |-> kind, name |-> name]

\* "/"
RootPath == <<>>

\* "/posts/[id]"
PostsPath == <<Seg("static", "posts"), Seg("dynamic", "id")>>

\* "/[...search]": a catch-all segment named like a schema key.
SearchPath == <<Seg("catchAll", "search")>>

\* Router.pathname.includes(`[${key}]`) || Router.pathname.includes(`[...${key}]`):
\* "[key]" occurs in a [key] segment, "[...key]" in a [...key] and in a
\* [[...key]] segment, and neither in a static segment.
PathnameIncludes(pathname, key) ==
  \E i \in 1..Len(pathname) :
    /\ pathname[i].name = key
    /\ pathname[i].kind \in {"dynamic", "catchAll", "optionalCatchAll"}

(***************************************************************************)
(* QueryParamStore's pure helpers.                                         *)
(***************************************************************************)
\* parseQuery that hands back the query it was given when it does not
\* validate.
ParseQueryUnchecked(sch, query) ==
  LET parsedQuery == SafeParse(sch, query)
  IN IF parsedQuery.success THEN parsedQuery.data ELSE query

\* parseQuery: the validated data, else the schema's defaults, else {}.
ParseQuery(sch, query) ==
  LET parsedQuery == SafeParse(sch, query)
      defaultValue == SafeParse(sch, EmptyQuery)
  IN IF parsedQuery.success THEN parsedQuery.data
     ELSE IF defaultValue.success THEN defaultValue.data
     ELSE EmptyQuery

\* value === undefined || value === null || value === '' || empty array
IsEmpty(value) ==
  \/ value.t = "undefined"
  \/ value.t = "null"
  \/ (value.t = "string" /\ value.s = "")
  \/ (value.t = "array" /\ Len(value.l) = 0)

\* filterEmptyValues
FilterEmptyValues(obj) ==
  [k \in {x \in DOMAIN obj : ~IsEmpty(obj[x])} |-> obj[k]]

\* extractDynamicParams: the router-query keys the pathname names.
ExtractDynamicParams(query, pathname) ==
  [k \in {x \in DOMAIN query : PathnameIncludes(pathname, x)} |-> query[k]]

\* extractNonSchemaParams: the router-query keys that are neither dynamic
\* nor keys of the validated payload.
ExtractNonSchemaParams(query, pathname, parsedData) ==
  LET dynamicParams == ExtractDynamicParams(query, pathname)
  IN [k \in {x \in DOMAIN query :
               x \notin DOMAIN dynamicParams /\ x \notin DOMAIN parsedData} |-> query[k]]

\* An option that is set and truthy.
Truthy(options, name) == name \in DOMAIN options /\ options[name] = TRUE

\* options.replace || this.routerOptions.replace ? Router.replace : Router.push
PushOrReplace(options, storeOptions) ==
  IF Truthy(options, "replace") \/ Truthy(storeOptions, "replace")
  THEN "replace" ELSE "push"

\* The pick with the store-wide options spread over the call's.
TransitionOptionsStoreWins(options, storeOptions) ==
  Pick(Spread(Spread(Only("shallow", TRUE), options), storeOptions),
       {"shallow", "locale", "scroll"})

\* pick({ shallow: true, ...this.routerOptions, ...options }, ['shallow', 'locale', 'scroll'])
TransitionOptions(options, storeOptions) ==
  Pick(Spread(Spread(Only("shallow", TRUE), storeOptions), options),
       {"shallow", "locale", "scroll"})

\* options.pathname || Router.pathname
TargetPathname(options, pathname) ==
  IF "pathname" \in DOMAIN options THEN options["pathname"] ELSE pathname

\* setQueryParams whose merge lets the router query's values override the
\* payload's.
FinalParamsRouterWins(query, pathname, parsedData, options, storeOptions) ==
  LET mergedParams == Spread(parsedData, query)
  IN IF Truthy(options, "keepEmptyParameters") \/ Truthy(storeOptions, "keepEmptyParameters")
     THEN mergedParams
     ELSE FilterEmptyValues(mergedParams)

\* setQueryParams that filters whatever the options say.
FinalParamsAlwaysFiltered(query, pathname, parsedData, options, storeOptions) ==
  LET dynamicParams == ExtractDynamicParams(query, pathname)
      existingParams == ExtractNonSchemaParams(query, pathname, parsedData)
      mergedParams == Spread(Spread(existingParams, parsedData), dynamicParams)
  IN FilterEmptyValues(mergedParams)

\* The query setQueryParams writes for a validated payload: non-schema
\* params, then the payload, then the dynamic params; emptied of empty
\* values unless keepEmptyParameters is set per call or store-wide.
FinalParams(query, pathname, parsedData, options, storeOptions) ==
  LET dynamicParams == ExtractDynamicParams(query, pathname)
      existingParams == ExtractNonSchemaParams(query, pathname, parsedData)
      mergedParams == Spread(Spread(existingParams, parsedData), dynamicParams)
  IN IF Truthy(options, "keepEmptyParameters") \/ Truthy(storeOptions, "keepEmptyParameters")
     THEN mergedParams
     ELSE FilterEmptyValues(mergedParams)

\* The navigation call setQueryParams hands to the router.
SetNavigation(query, pathname, parsedData, options, storeOptions) ==
  [kind |-> "setQueryParams",
   method |-> PushOrReplace(options, storeOptions),
   pathname |-> TargetPathname(options, pathname),
   query |-> FinalParams(query, pathname, parsedData, options, storeOptions),
   options |-> TransitionOptions(options, storeOptions)]

(***************************************************************************)
(* The state.                                                              *)
(***************************************************************************)
VARIABLES
  schema,            \* the store's schema (constructor argument)
  routerOptions,     \* the store-wide options (constructor argument)
  hasWindow,         \* typeof window !== 'undefined'
  rQuery,            \* Router.query
  rPathname,         \* Router.pathname
  rIsReady,          \* router.isReady
  snapshot,          \* state.snapshot: <<>> for null, <<value>> otherwise
  previousQuery,     \* state.previousQuery
  isInitialized,     \* state.isInitialized
  initialQuery,      \* state.initialQuery
  subscribers,       \* the callbacks subscribed, each named by its binding
  inflight,          \* the navigation calls whose promise is pending
  bPhase,            \* each binding: "unmounted", "rendered" (first render done,
                     \* effects not yet run) or "mounted"
  bInitialQuery,     \* each binding's initialQuery argument (initialQueryRef)
  bState,            \* each binding's rendered state (useSyncExternalStore)
  bIsInitializedRef, \* each binding's isInitializedRef
  bDebounced,        \* each binding's pending debounced call: <<>> or <<args>>,
                     \* noted with the router query seen when it was scheduled
  bDirty,            \* the bindings React has scheduled a render of
  pending,           \* the bindings rendered in this commit, effects not yet run
  committing,        \* whether the commit has started to run effects
  last,              \* what the latest step did, and the promise value it resolved
  notified,          \* the subscriber callbacks the latest step called
  other              \* a second store over the same router: its state, and
                     \* whether its component is mounted

storeVars == <<snapshot, previousQuery, isInitialized, initialQuery>>

routerVars == <<rQuery, rPathname, rIsReady>>

bindingVars ==
  <<bPhase, bInitialQuery, bState, bIsInitializedRef, bDebounced, bDirty, pending, committing>>

\* What no operation of the store changes: its constructor arguments, the
\* environment and the second store.
constVars == <<schema, routerOptions, hasWindow, other>>

vars == <<constVars, routerVars, storeVars, subscribers, inflight, bindingVars, last, notified>>

\* this.state as one value.
StoreState ==
  [snapshot |-> snapshot, previousQuery |-> previousQuery,
   isInitialized |-> isInitialized, initialQuery |-> initialQuery]

SetStoreState(st) ==
  /\ snapshot' = st.snapshot
  /\ previousQuery' = st.previousQuery
  /\ isInitialized' = st.isInitialized
  /\ initialQuery' = st.initialQuery

(***************************************************************************)
(* QueryParamStore's reads.  Each takes the store state st and the router  *)
(* query it finds, and gives the store state it leaves.                    *)
(***************************************************************************)
\* getSnapshot whose cache check compares Router.query alone, not the merge.
GetSnapshotCachedByRouterQuery(st, arg, query) ==
  LET st1 == IF ~st.isInitialized /\ arg # <<>>
             THEN [st EXCEPT !.initialQuery = arg[1], !.isInitialized = TRUE]
             ELSE st
      mergedQuery == Spread(st1.initialQuery, query)
  IN IF ~hasWindow
     THEN [st |-> st1, value |-> ParseQuery(schema, st1.initialQuery)]
     ELSE IF st1.snapshot = <<>> \/ st1.previousQuery # query
     THEN [st |-> [st1 EXCEPT !.previousQuery = query,
                              !.snapshot = <<ParseQuery(schema, mergedQuery)>>],
           value |-> ParseQuery(schema, mergedQuery)]
     ELSE [st |-> st1, value |-> st1.snapshot[1]]

\* getSnapshot with the merge turned round: { ...Router.query, ...initialQuery }.
GetSnapshotInitialWins(st, arg, query) ==
  LET st1 == IF ~st.isInitialized /\ arg # <<>>
             THEN [st EXCEPT !.initialQuery = arg[1], !.isInitialized = TRUE]
             ELSE st
      mergedQuery == Spread(query, st1.initialQuery)
  IN IF ~hasWindow
     THEN [st |-> st1, value |-> ParseQuery(schema, st1.initialQuery)]
     ELSE IF st1.snapshot = <<>> \/ st1.previousQuery # mergedQuery
     THEN [st |-> [st1 EXCEPT !.previousQuery = mergedQuery,
                              !.snapshot = <<ParseQuery(schema, mergedQuery)>>],
           value |-> ParseQuery(schema, mergedQuery)]
     ELSE [st |-> st1, value |-> st1.snapshot[1]]

\* getSnapshot(newInitialQuery?) of a store of schema sch: arg is <<>> for a
\* call without argument and <<query>> otherwise; an object, also the empty
\* one, is truthy and latches.
GetSnapshotOf(sch, st, arg, query) ==
  LET st1 == IF ~st.isInitialized /\ arg # <<>>
             THEN [st EXCEPT !.initialQuery = arg[1], !.isInitialized = TRUE]
             ELSE st
      mergedQuery == Spread(st1.initialQuery, query)
  IN IF ~hasWindow
     THEN [st |-> st1, value |-> ParseQuery(sch, st1.initialQuery)]
     ELSE IF st1.snapshot = <<>> \/ st1.previousQuery # mergedQuery
     THEN [st |-> [st1 EXCEPT !.previousQuery = mergedQuery,
                              !.snapshot = <<ParseQuery(sch, mergedQuery)>>],
           value |-> ParseQuery(sch, mergedQuery)]
     ELSE [st |-> st1, value |-> st1.snapshot[1]]

\* getSnapshot of the store.
GetSnapshot(st, arg, query) == GetSnapshotOf(schema, st, arg, query)

\* subscribe(callback): this.subscribers.add(callback)
Subscribe(subs, callback) == subs \cup {callback}

\* An unsubscribe function that empties the subscriber set.
UnsubscribeClears(subs, callback) == {}

\* The function subscribe returns: () => this.subscribers.delete(callback).
\* Set.delete of an absent element changes nothing and does not throw.
Unsubscribe(subs, callback) == subs \ {callback}

\* invalidate() that calls the subscribers without reading the router.
InvalidateKeepsCache(st, query) == st

\* invalidate(): this.state.snapshot = this.getSnapshot(); the caller then
\* calls every subscriber.
Invalidate(st, query) ==
  LET r == GetSnapshot(st, <<>>, query)
  IN [r.st EXCEPT !.snapshot = <<r.value>>]

\* resetInitialization()
ResetInitialization(st) ==
  [st EXCEPT !.isInitialized = FALSE, !.initialQuery = EmptyQuery]

(***************************************************************************)
(* QueryParamStore's writes.  A write either hands the router a navigation *)
(* call (nav = <<call>>, its promise pending) or resolves false at once.   *)
(***************************************************************************)
\* setQueryParams that navigates with the payload as given when it does not
\* validate.
SetQueryParamsCallUnvalidated(newParams, options) ==
  IF ~hasWindow THEN [nav |-> <<>>, result |-> "false"]
  ELSE [nav |-> <<SetNavigation(rQuery, rPathname, newParams, options, routerOptions)>>,
        result |-> "pending"]

\* setQueryParams(newParams, options)
SetQueryParamsCall(newParams, options) ==
  LET parsedParams == SafeParse(schema, newParams)
  IN IF ~hasWindow THEN [nav |-> <<>>, result |-> "false"]
     ELSE IF parsedParams.success
     THEN [nav |-> <<SetNavigation(rQuery, rPathname, parsedParams.data,
                                   options, routerOptions)>>,
           result |-> "pending"]
     ELSE [nav |-> <<>>, result |-> "false"]

\* clearQueryParams in reset-to-defaults mode: the payload it hands to
\* setQueryParams; keys is <<>> for no keys and <<set of keys>> otherwise.
ParamsToReset(keys) ==
  LET defaultValues == ParseQuery(schema, EmptyQuery)
  IN IF keys = <<>> THEN defaultValues
     ELSE [k \in keys[1] |->
             IF k \in DOMAIN defaultValues THEN defaultValues[k] ELSE Undefined]

\* keysToRemove that takes the schema's declared keys whether or not the
\* schema has a shape.
KeysToRemoveDeclared(st, keys) ==
  IF keys # <<>> THEN keys[1] ELSE SchemaKeys(schema)

\* clearQueryParams in remove mode: the keys it deletes from the router
\* query.  Without keys and without a schema shape it reads getSnapshot({}).
KeysToRemove(st, keys) ==
  IF keys # <<>> THEN keys[1]
  ELSE IF schema.hasShape THEN SchemaKeys(schema)
  ELSE DOMAIN GetSnapshot(st, <<EmptyQuery>>, rQuery).value

\* The store state clearQueryParams leaves in remove mode.
RemoveModeState(st, keys) ==
  IF keys = <<>> /\ ~schema.hasShape
  THEN GetSnapshot(st, <<EmptyQuery>>, rQuery).st
  ELSE st

ClearNavigation(st, keys, options) ==
  [kind |-> "clearQueryParams",
   method |-> PushOrReplace(options, routerOptions),
   pathname |-> TargetPathname(options, rPathname),
   query |-> Without(rQuery, KeysToRemove(st, keys)),
   options |-> TransitionOptions(options, routerOptions)]

\* clearQueryParams whose remove mode does not look for a window.
ClearQueryParamsCallAnywhere(st, keys, options) ==
  IF Truthy(options, "resetToDefaults")
  THEN LET r == SetQueryParamsCall(ParamsToReset(keys), Spread(routerOptions, options))
       IN [nav |-> r.nav, result |-> r.result, st |-> st]
  ELSE [nav |-> <<ClearNavigation(st, keys, options)>>, result |-> "pending",
        st |-> RemoveModeState(st, keys)]

\* clearQueryParams(keys, options): the navigation, the promise value and
\* the store state it leaves.
ClearQueryParamsCall(st, keys, options) ==
  IF Truthy(options, "resetToDefaults")
  THEN LET r == SetQueryParamsCall(ParamsToReset(keys), Spread(routerOptions, options))
       IN [nav |-> r.nav, result |-> r.result, st |-> st]
  ELSE IF ~hasWindow THEN [nav |-> <<>>, result |-> "false", st |-> st]
  ELSE [nav |-> <<ClearNavigation(st, keys, options)>>, result |-> "pending",
        st |-> RemoveModeState(st, keys)]

(***************************************************************************)
(* The bounds of the model and the inputs it draws.                        *)
(***************************************************************************)
\* The navigation calls that may be pending at once.
MaxInFlight == 1

\* The components that use the store's hooks.
Bindings == {"A", "B"}

\* The initialQuery arguments a component passes to its hook.
InitialQueries == {EmptyQuery, [status |-> Str("draft"), search |-> Str("")]}

\* The routes the page is opened at and navigated to from outside the
\* store.  status and search are schema keys, id is the dynamic segment of
\* PostsPath, extra is a key no schema declares.
Route(pathname, query) == [pathname |-> pathname, query |-> query]

Routes ==
  {Route(RootPath, EmptyQuery),
   Route(RootPath, [status |-> Str("sent"), extra |-> Str("")]),
   Route(PostsPath, [id |-> Str("7"), search |-> List(<<"x">>), extra |-> Str("e")])}

\* The payloads handed to a setter.
Payloads ==
  {EmptyQuery, [search |-> Str("y")], [search |-> Str("")], [search |-> List(<<>>)],
   [status |-> Str("sent")], [status |-> Null], [search |-> Undefined, id |-> Str("9")]}

\* The options handed to a setter or to clearQueryParams.
CallOptions ==
  {EmptyQuery, [keepEmptyParameters |-> TRUE],
   [keepEmptyParameters |-> TRUE, pathname |-> SearchPath]}

\* The options a store is created with.
StoreOptions == {EmptyQuery, [keepEmptyParameters |-> TRUE]}

\* The keys handed to clearQueryParams: none, or a list of schema keys.
ClearKeys == {<<>>, <<{"search"}>>}

\* The same for the specification of a store that two components share.
SharedRoutes ==
  {Route(RootPath, EmptyQuery), Route(RootPath, [status |-> Str("sent"), extra |-> Str("")])}

SharedPayloads == {[search |-> Str("y")], [status |-> Null]}

SharedOptions == {EmptyQuery}

SharedClearKeys == {<<>>}

\* The payload handed to a setter where termination is checked.
LivePayloads == {[search |-> Str("y")]}

\* The bindings whose effects have run: each is subscribed to the store and
\* listens to routeChangeComplete.
Mounted == {b \in Bindings : bPhase[b] = "mounted"}

\* React has no render scheduled and no commit under way.  React runs the
\* renders it has scheduled, and the effects of a commit, before the next
\* timer, router or user event is handled.
ReactIdle == pending = <<>> /\ \A b \in Bindings : ~bDirty[b]

\* What the latest step did: the operation, the value its promise has so far
\* ("pending" until the navigation settles) and, for a call the application
\* made, the arguments of the call.
Step(op, result) == [op |-> op, result |-> result, args |-> <<>>]

Call(op, result, a, b) == [op |-> op, result |-> result, args |-> <<a, b>>]

\* The step that settles the navigation call n.
Settled(op, result, n) == [op |-> op, result |-> result, args |-> <<n>>]

\* The step that cancels the pending debounced call d (<<>> when none is
\* pending).
Cancelled(op, d) == [op |-> op, result |-> "none", args |-> <<d>>]

\* The second store as created, its component not mounted.
OtherCreated ==
  [snapshot |-> <<>>, previousQuery |-> EmptyQuery, isInitialized |-> FALSE,
   initialQuery |-> EmptyQuery, subscribed |-> FALSE]

\* The state after createQueryParamStore(schema, routerOptions), before any
\* component has rendered.
Created ==
  /\ snapshot = <<>>
  /\ previousQuery = EmptyQuery
  /\ isInitialized = FALSE
  /\ initialQuery = EmptyQuery
  /\ subscribers = {}
  /\ inflight = <<>>
  /\ bPhase = [b \in Bindings |-> "unmounted"]
  /\ bInitialQuery = [b \in Bindings |-> EmptyQuery]
  /\ bState = [b \in Bindings |-> EmptyQuery]
  /\ bIsInitializedRef = [b \in Bindings |-> FALSE]
  /\ bDebounced = [b \in Bindings |-> <<>>]
  /\ bDirty = [b \in Bindings |-> FALSE]
  /\ pending = <<>>
  /\ committing = FALSE
  /\ last = Step("init", "none")
  /\ notified = {}
  /\ other = OtherCreated

\* A store of any schema and options, in a browser or on the server, used by
\* one component.
Init ==
  /\ schema \in Schemas
  /\ routerOptions \in StoreOptions
  /\ hasWindow \in BOOLEAN
  /\ \E r \in IF hasWindow THEN Routes ELSE {Route(RootPath, EmptyQuery)} :
       rQuery = r.query /\ rPathname = r.pathname
  /\ rIsReady = FALSE
  /\ Created

\* A store in a browser that two components share; its schema has no shape.
InitShared ==
  /\ schema = RefinedSchema
  /\ routerOptions = EmptyQuery
  /\ hasWindow = TRUE
  /\ \E r \in SharedRoutes : rQuery = r.query /\ rPathname = r.pathname
  /\ rIsReady = FALSE
  /\ Created

\* A subscriber's callback (useSyncExternalStore's handleStoreChange): a
\* render is scheduled when the snapshot read on store state st is not the
\* rendered one.
SnapshotChanged(st, query, b) ==
  GetSnapshot(st, <<bInitialQuery[b]>>, query).value # bState[b]

\* The bindings left dirty once the callbacks of the set called have run on
\* store state st.
AfterNotify(called, st, query) ==
  [b \in Bindings |-> bDirty[b] \/ (b \in called /\ SnapshotChanged(st, query, b))]

\* The router's context changed: every component that uses useRouter()
\* renders again.
AfterRouteChange == [b \in Bindings |-> bPhase[b] = "mounted"]

(***************************************************************************)
(* The store's public operations.                                          *)
(***************************************************************************)
\* The setter a hook returns, called by a component that has rendered:
\* store.setQueryParams(newParams, { ...routerOptions, ...options }).
SetQueryParams(newParams, options) ==
  LET r == SetQueryParamsCall(newParams, Spread(routerOptions, options))
  IN /\ ReactIdle
     /\ \E b \in Bindings : bPhase[b] # "unmounted"
     /\ r.nav = <<>> \/ Len(inflight) < MaxInFlight
     /\ inflight' = inflight \o r.nav
     /\ last' = Call("setQueryParams", r.result, newParams, options)
     /\ notified' = {}
     /\ UNCHANGED <<constVars, routerVars, storeVars, subscribers, bindingVars>>

\* clearQueryParams(keys, options), callable from anywhere.
ClearQueryParams(keys, options) ==
  LET r == ClearQueryParamsCall(StoreState, keys, options)
  IN /\ ReactIdle
     /\ r.nav = <<>> \/ Len(inflight) < MaxInFlight
     /\ inflight' = inflight \o r.nav
     /\ SetStoreState(r.st)
     /\ last' = Call("clearQueryParams", r.result, keys, options)
     /\ notified' = {}
     /\ UNCHANGED <<constVars, routerVars, subscribers, bindingVars>>

(***************************************************************************)
(* The router.                                                             *)
(***************************************************************************)
RemoveAt(seq, i) == SubSeq(seq, 1, i - 1) \o SubSeq(seq, i + 1, Len(seq))

\* A pending navigation's promise resolves, carrying true (the route
\* changed: the router holds the new pathname and query and has emitted
\* routeChangeComplete) or false (the router left the route as it was).
\* The store's then-callback invalidates, calls every subscriber and
\* resolves the operation's promise.
NavResolve(i, carried) ==
  LET n == inflight[i]
      query == IF carried THEN n.query ELSE rQuery
      st == Invalidate(StoreState, query)
  IN /\ ReactIdle
     /\ i \in 1..Len(inflight)
     /\ rQuery' = query
     /\ rPathname' = IF carried THEN n.pathname ELSE rPathname
     /\ rIsReady' = (carried \/ rIsReady)
     /\ SetStoreState(st)
     /\ notified' = subscribers
     /\ bDirty' = IF carried THEN AfterRouteChange ELSE AfterNotify(subscribers, st, query)
     /\ inflight' = RemoveAt(inflight, i)
     /\ last' = Settled("navResolve",
                        IF n.kind = "clearQueryParams" \/ carried THEN "true" ELSE "false",
                        n)
     /\ UNCHANGED <<constVars, subscribers, bPhase, bInitialQuery, bState,
                    bIsInitializedRef, bDebounced, pending, committing>>

\* A catch-callback that invalidates the way the then-callback does.
NavRejectInvalidates(i) ==
  /\ ReactIdle
  /\ i \in 1..Len(inflight)
  /\ inflight' = RemoveAt(inflight, i)
  /\ SetStoreState(Invalidate(StoreState, rQuery))
  /\ notified' = subscribers
  /\ last' = Settled("navReject", "false", inflight[i])
  /\ UNCHANGED <<constVars, routerVars, subscribers, bindingVars>>

\* A pending navigation's promise rejects: the catch-callback resolves the
\* operation's promise to false.
NavReject(i) ==
  /\ ReactIdle
  /\ i \in 1..Len(inflight)
  /\ inflight' = RemoveAt(inflight, i)
  /\ last' = Settled("navReject", "false", inflight[i])
  /\ notified' = {}
  /\ UNCHANGED <<constVars, routerVars, storeVars, subscribers, bindingVars>>

\* An external navigation whose routeChangeComplete event no binding
\* listens to: the store is not invalidated and no subscriber is called.
ExternalNavigateUnheard(route) ==
  /\ ReactIdle
  /\ hasWindow
  /\ route # Route(rPathname, rQuery)
  /\ rQuery' = route.query
  /\ rPathname' = route.pathname
  /\ rIsReady' = TRUE
  /\ notified' = {}
  /\ bDirty' = AfterRouteChange
  /\ last' = Step("external", "none")
  /\ UNCHANGED <<constVars, storeVars, subscribers, inflight, bPhase, bInitialQuery, bState,
                 bIsInitializedRef, bDebounced, pending, committing>>

\* A routeChangeComplete listener that, besides invalidating, writes the
\* refreshed snapshot back to the router.
ExternalNavigateWritesBack(route) ==
  /\ ReactIdle
  /\ hasWindow
  /\ route # Route(rPathname, rQuery)
  /\ rQuery' = route.query
  /\ rPathname' = route.pathname
  /\ rIsReady' = TRUE
  /\ IF Mounted # {}
     THEN /\ SetStoreState(Invalidate(StoreState, route.query))
          /\ notified' = subscribers
          /\ inflight' = inflight \o
               <<SetNavigation(route.query, route.pathname,
                               Invalidate(StoreState, route.query).snapshot[1],
                               EmptyQuery, routerOptions)>>
     ELSE UNCHANGED <<storeVars, inflight>> /\ notified' = {}
  /\ bDirty' = AfterRouteChange
  /\ last' = Step("external", "none")
  /\ UNCHANGED <<constVars, subscribers, bPhase, bInitialQuery, bState,
                 bIsInitializedRef, bDebounced, pending, committing>>

\* A navigation the store did not issue completes: the router holds the new
\* route and emits routeChangeComplete, on which every mounted binding's
\* listener calls store.invalidate().
ExternalNavigate(route) ==
  /\ ReactIdle
  /\ hasWindow
  /\ route # Route(rPathname, rQuery)
  /\ rQuery' = route.query
  /\ rPathname' = route.pathname
  /\ rIsReady' = TRUE
  /\ IF Mounted # {}
     THEN SetStoreState(Invalidate(StoreState, route.query)) /\ notified' = subscribers
     ELSE UNCHANGED storeVars /\ notified' = {}
  /\ bDirty' = AfterRouteChange
  /\ last' = Step("external", "none")
  /\ UNCHANGED <<constVars, subscribers, inflight, bPhase, bInitialQuery, bState,
                 bIsInitializedRef, bDebounced, pending, committing>>

\* The router becomes ready.
RouterReady ==
  /\ ReactIdle
  /\ hasWindow
  /\ ~rIsReady
  /\ rIsReady' = TRUE
  /\ bDirty' = AfterRouteChange
  /\ last' = Step("routerReady", "none")
  /\ notified' = {}
  /\ UNCHANGED <<constVars, rQuery, rPathname, storeVars, subscribers, inflight, bPhase,
                 bInitialQuery, bState, bIsInitializedRef, bDebounced, pending, committing>>

(***************************************************************************)
(* useQueryParamStore: a binding of the store to a component.  In a commit *)
(* React renders components and then runs their effects, in the order of   *)
(* the renders.                                                            *)
(***************************************************************************)
\* The first render: useSyncExternalStore reads store.getSnapshot(initialQuery).
\* Outside a browser this is all a binding does: no effect runs there.
MountRender(b, query) ==
  LET r == GetSnapshot(StoreState, <<query>>, rQuery)
  IN /\ ~committing
     /\ bPhase[b] = "unmounted"
     /\ SetStoreState(r.st)
     /\ bPhase' = [bPhase EXCEPT ![b] = "rendered"]
     /\ bInitialQuery' = [bInitialQuery EXCEPT ![b] = query]
     /\ bState' = [bState EXCEPT ![b] = r.value]
     /\ pending' = IF hasWindow THEN Append(pending, b) ELSE pending
     /\ last' = Step("render", "none")
     /\ notified' = {}
     /\ UNCHANGED <<constVars, routerVars, subscribers, inflight, bIsInitializedRef,
                    bDebounced, bDirty, committing>>

\* A later render: one React has scheduled, or one the component's parent
\* causes while the snapshot is not the rendered one.
Rerender(b) ==
  LET r == GetSnapshot(StoreState, <<bInitialQuery[b]>>, rQuery)
  IN /\ ~committing
     /\ bPhase[b] = "mounted"
     /\ \A i \in 1..Len(pending) : pending[i] # b
     /\ bDirty[b] \/ r.value # bState[b]
     /\ SetStoreState(r.st)
     /\ bState' = [bState EXCEPT ![b] = r.value]
     /\ bDirty' = [bDirty EXCEPT ![b] = FALSE]
     /\ pending' = Append(pending, b)
     /\ last' = Step("render", "none")
     /\ notified' = {}
     /\ UNCHANGED <<constVars, routerVars, subscribers, inflight, bPhase, bInitialQuery,
                    bIsInitializedRef, bDebounced, committing>>

\* A mount effect that does not reset the initialization first.
MountEffectKeepsLatch(st, b) ==
  GetSnapshot(st, <<bInitialQuery[b]>>, rQuery).st

\* A mount effect that resets the initialization and does not read the
\* snapshot with the binding's initial query.
MountEffectResetsOnly(st, b) ==
  ResetInitialization(st)

\* The mount effect: store.resetInitialization(); store.getSnapshot(initialQueryRef.current)
MountEffect(st, b) ==
  GetSnapshot(ResetInitialization(st), <<bInitialQuery[b]>>, rQuery).st

\* Object.keys(obj).some((key) => obj[key] !== undefined && !(key in router.query))
HasKeysToSync(obj, routerQuery) ==
  \E key \in DOMAIN obj : obj[key] # Undefined /\ key \notin DOMAIN routerQuery

\* A first reconciliation that submits the defaults and the initial query
\* alone, without the router query and the current state.
MergedStateWithoutRouter(zodDefaults, initial, routerQuery, currentState) ==
  Spread(zodDefaults, initial)

\* The state first reconciliation submits: defaults < initial < router < current.
MergedState(zodDefaults, initial, routerQuery, currentState) ==
  Spread(Spread(Spread(zodDefaults, initial), routerQuery), currentState)

\* A synchronization effect whose debounce queues every call behind the
\* pending ones instead of replacing them.
SyncEffectQueuesWrites(st, b) ==
  LET r1 == GetSnapshot(st, <<>>, rQuery)
      r2 == GetSnapshot(r1.st, <<EmptyQuery>>, rQuery)
      currentState == r1.value
      zodDefaults == r2.value
      parsedRouterQuery == r1.value
  IN IF ~rIsReady
     THEN [st |-> st, isInitializedRef |-> bIsInitializedRef[b],
           debounced |-> bDebounced[b], call |-> <<>>]
     ELSE IF ~bIsInitializedRef[b]
     THEN [st |-> r2.st, isInitializedRef |-> TRUE, debounced |-> bDebounced[b],
           call |-> IF \/ HasKeysToSync(zodDefaults, rQuery)
                       \/ HasKeysToSync(bInitialQuery[b], rQuery)
                    THEN <<[params |-> MergedState(zodDefaults, bInitialQuery[b],
                                                   rQuery, currentState),
                            options |-> [replace |-> TRUE, shallow |-> TRUE]]>>
                    ELSE <<>>]
     ELSE [st |-> r1.st, isInitializedRef |-> TRUE,
           debounced |-> IF bState[b] # parsedRouterQuery
                         THEN Append(bDebounced[b],
                                     [params |-> bState[b],
                                      options |-> Spread(Only("shallow", TRUE), routerOptions),
                                      seen |-> rQuery])
                         ELSE bDebounced[b],
           call |-> <<>>]

\* A synchronization effect whose first reconciliation does not record that
\* it has run.
SyncEffectForgetsFirstRun(st, b) ==
  LET r1 == GetSnapshot(st, <<>>, rQuery)
      r2 == GetSnapshot(r1.st, <<EmptyQuery>>, rQuery)
      currentState == r1.value
      zodDefaults == r2.value
      parsedRouterQuery == r1.value
  IN IF ~rIsReady
     THEN [st |-> st, isInitializedRef |-> bIsInitializedRef[b],
           debounced |-> bDebounced[b], call |-> <<>>]
     ELSE IF ~bIsInitializedRef[b]
     THEN [st |-> r2.st, isInitializedRef |-> FALSE, debounced |-> bDebounced[b],
           call |-> IF \/ HasKeysToSync(zodDefaults, rQuery)
                       \/ HasKeysToSync(bInitialQuery[b], rQuery)
                    THEN <<[params |-> MergedState(zodDefaults, bInitialQuery[b],
                                                   rQuery, currentState),
                            options |-> [replace |-> TRUE, shallow |-> TRUE]]>>
                    ELSE <<>>]
     ELSE [st |-> r1.st, isInitializedRef |-> TRUE,
           debounced |-> IF bState[b] # parsedRouterQuery
                         THEN <<[params |-> bState[b],
                                 options |-> Spread(Only("shallow", TRUE), routerOptions),
                                 seen |-> rQuery]>>
                         ELSE bDebounced[b],
           call |-> <<>>]

\* A synchronization effect that does not return early while the router is
\* not ready.
SyncEffectIgnoresReady(st, b) ==
  LET r1 == GetSnapshot(st, <<>>, rQuery)
      r2 == GetSnapshot(r1.st, <<EmptyQuery>>, rQuery)
      currentState == r1.value
      zodDefaults == r2.value
      parsedRouterQuery == r1.value
  IN IF ~bIsInitializedRef[b]
     THEN [st |-> r2.st, isInitializedRef |-> TRUE, debounced |-> bDebounced[b],
           call |-> IF \/ HasKeysToSync(zodDefaults, rQuery)
                       \/ HasKeysToSync(bInitialQuery[b], rQuery)
                    THEN <<[params |-> MergedState(zodDefaults, bInitialQuery[b],
                                                   rQuery, currentState),
                            options |-> [replace |-> TRUE, shallow |-> TRUE]]>>
                    ELSE <<>>]
     ELSE [st |-> r1.st, isInitializedRef |-> TRUE,
           debounced |-> IF bState[b] # parsedRouterQuery
                         THEN <<[params |-> bState[b],
                                 options |-> Spread(Only("shallow", TRUE), routerOptions),
                                 seen |-> rQuery]>>
                         ELSE bDebounced[b],
           call |-> <<>>]

\* A synchronization effect whose ongoing branch schedules the write-back
\* without comparing the rendered state with the parsed router query.
SyncEffectAlwaysWrites(st, b) ==
  LET r1 == GetSnapshot(st, <<>>, rQuery)
      r2 == GetSnapshot(r1.st, <<EmptyQuery>>, rQuery)
      currentState == r1.value
      zodDefaults == r2.value
  IN IF ~rIsReady
     THEN [st |-> st, isInitializedRef |-> bIsInitializedRef[b],
           debounced |-> bDebounced[b], call |-> <<>>]
     ELSE IF ~bIsInitializedRef[b]
     THEN [st |-> r2.st, isInitializedRef |-> TRUE, debounced |-> bDebounced[b],
           call |-> IF \/ HasKeysToSync(zodDefaults, rQuery)
                       \/ HasKeysToSync(bInitialQuery[b], rQuery)
                    THEN <<[params |-> MergedState(zodDefaults, bInitialQuery[b],
                                                   rQuery, currentState),
                            options |-> [replace |-> TRUE, shallow |-> TRUE]]>>
                    ELSE <<>>]
     ELSE [st |-> r1.st, isInitializedRef |-> TRUE,
           debounced |-> <<[params |-> bState[b],
                            options |-> Spread(Only("shallow", TRUE), routerOptions),
                            seen |-> rQuery]>>,
           call |-> <<>>]

\* The synchronization effect of binding b, run on store state st: what it
\* leaves in the store and in the binding, and the setQueryParams call it
\* makes, if any.  A debounced call is noted with the router query that the
\* effect run saw (seen), which the call itself does not carry.
SyncEffect(st, b) ==
  LET r1 == GetSnapshot(st, <<>>, rQuery)
      r2 == GetSnapshot(r1.st, <<EmptyQuery>>, rQuery)
      currentState == r1.value
      zodDefaults == r2.value
      parsedRouterQuery == r1.value
  IN IF ~rIsReady
     THEN [st |-> st, isInitializedRef |-> bIsInitializedRef[b],
           debounced |-> bDebounced[b], call |-> <<>>]
     ELSE IF ~bIsInitializedRef[b]
     THEN [st |-> r2.st, isInitializedRef |-> TRUE, debounced |-> bDebounced[b],
           call |-> IF \/ HasKeysToSync(zodDefaults, rQuery)
                       \/ HasKeysToSync(bInitialQuery[b], rQuery)
                    THEN <<[params |-> MergedState(zodDefaults, bInitialQuery[b],
                                                   rQuery, currentState),
                            options |-> [replace |-> TRUE, shallow |-> TRUE]]>>
                    ELSE <<>>]
     ELSE [st |-> r1.st, isInitializedRef |-> TRUE,
           debounced |-> IF bState[b] # parsedRouterQuery
                         THEN <<[params |-> bState[b],
                                 options |-> Spread(Only("shallow", TRUE), routerOptions),
                                 seen |-> rQuery]>>
                         ELSE bDebounced[b],
           call |-> <<>>]

\* The effects of the next binding of the commit, in the hook's order: on
\* mount the mount effect and the subscription (which schedules a render
\* when the snapshot is no longer the rendered one); the synchronization
\* effect; on mount the routeChangeComplete listener and the debounce's
\* cleanup are registered.  A debounced call that replaces a pending one
\* restarts the timer: the step records the call it supersedes.
Effects(b) ==
  /\ pending # <<>>
  /\ b = Head(pending)
  /\ \E st1 \in {IF bPhase[b] = "rendered" THEN MountEffect(StoreState, b) ELSE StoreState} :
       \E e \in {SyncEffect(st1, b)} :
         \E r \in {IF e.call = <<>> THEN [nav |-> <<>>, result |-> "none"]
                  ELSE SetQueryParamsCall(e.call[1].params, e.call[1].options)} :
           /\ r.nav = <<>> \/ Len(inflight) < MaxInFlight
           /\ SetStoreState(e.st)
           /\ subscribers' = Subscribe(subscribers, b)
           /\ inflight' = inflight \o r.nav
           /\ bPhase' = [bPhase EXCEPT ![b] = "mounted"]
           /\ bIsInitializedRef' = [bIsInitializedRef EXCEPT ![b] = e.isInitializedRef]
           /\ bDebounced' = [bDebounced EXCEPT ![b] = e.debounced]
           /\ bDirty' = [bDirty EXCEPT ![b] =
                           @ \/ (bPhase[b] = "rendered" /\ SnapshotChanged(st1, rQuery, b))]
           /\ pending' = Tail(pending)
           /\ committing' = (Tail(pending) # <<>>)
           /\ last' = IF bDebounced[b] # <<>> /\ e.debounced # bDebounced[b]
                      THEN Cancelled("effects", bDebounced[b])
                      ELSE Step("effects", r.result)
           /\ notified' = {}
           /\ UNCHANGED <<constVars, routerVars, bInitialQuery, bState>>

\* The debounce timer of binding b fires: store.setQueryParams(newParams, options)
DebouncedSetQueryParams(b) ==
  LET r == SetQueryParamsCall(bDebounced[b][1].params, bDebounced[b][1].options)
  IN /\ ReactIdle
     /\ bDebounced[b] # <<>>
     /\ r.nav = <<>> \/ Len(inflight) < MaxInFlight
     /\ inflight' = inflight \o r.nav
     /\ bDebounced' = [bDebounced EXCEPT ![b] = <<>>]
     /\ last' = Step("debounced", r.result)
     /\ notified' = {}
     /\ UNCHANGED <<constVars, routerVars, storeVars, subscribers, bPhase, bInitialQuery,
                    bState, bIsInitializedRef, bDirty, pending, committing>>

\* An unmount whose cleanup does not cancel the debounced call.
UnmountKeepsTimer(b) ==
  /\ ReactIdle
  /\ bPhase[b] = "mounted"
  /\ subscribers' = subscribers \ {b}
  /\ bPhase' = [bPhase EXCEPT ![b] = "unmounted"]
  /\ bInitialQuery' = [bInitialQuery EXCEPT ![b] = EmptyQuery]
  /\ bState' = [bState EXCEPT ![b] = EmptyQuery]
  /\ bIsInitializedRef' = [bIsInitializedRef EXCEPT ![b] = FALSE]
  /\ last' = Cancelled("unmount", bDebounced[b])
  /\ notified' = {}
  /\ UNCHANGED <<constVars, routerVars, storeVars, inflight, bDebounced, bDirty, pending,
                 committing>>

\* The component unmounts: the subscription and the listener are removed
\* and the pending debounced call is cancelled.
Unmount(b) ==
  /\ ReactIdle
  /\ bPhase[b] = "mounted"
  /\ subscribers' = Unsubscribe(subscribers, b)
  /\ bPhase' = [bPhase EXCEPT ![b] = "unmounted"]
  /\ bInitialQuery' = [bInitialQuery EXCEPT ![b] = EmptyQuery]
  /\ bState' = [bState EXCEPT ![b] = EmptyQuery]
  /\ bIsInitializedRef' = [bIsInitializedRef EXCEPT ![b] = FALSE]
  /\ bDebounced' = [bDebounced EXCEPT ![b] = <<>>]
  /\ last' = Cancelled("unmount", bDebounced[b])
  /\ notified' = {}
  /\ UNCHANGED <<constVars, routerVars, storeVars, inflight, bDirty, pending, committing>>

(***************************************************************************)
(* The specifications.                                                     *)
(***************************************************************************)
\* One component uses the store.  Its rendered state is the snapshot whenever
\* its effect runs, so that no write-back is ever scheduled and the debounce
\* timer has nothing to fire (NoWriteBackAlone).
Next ==
  \/ \E p \in Payloads, o \in CallOptions : SetQueryParams(p, o)
  \/ \E k \in ClearKeys, o \in CallOptions \cup {[resetToDefaults |-> TRUE]} :
       ClearQueryParams(k, o)
  \/ \E i \in 1..MaxInFlight, carried \in BOOLEAN : NavResolve(i, carried)
  \/ \E i \in 1..MaxInFlight : NavReject(i)
  \/ \E r \in Routes : ExternalNavigate(r)
  \/ RouterReady
  \/ \E q \in InitialQueries : MountRender("A", q)
  \/ \E b \in Bindings : Rerender(b)
  \/ \E b \in Bindings : Effects(b)
  \/ \E b \in Bindings : Unmount(b)

NoWriteBackAlone == \A b \in Bindings : bDebounced[b] = <<>>

Spec == Init /\ [][Next]_vars

\* Two components use the store.
NextShared ==
  \/ \E p \in SharedPayloads, o \in SharedOptions : SetQueryParams(p, o)
  \/ \E k \in SharedClearKeys, o \in SharedOptions \cup {[resetToDefaults |-> TRUE]} :
       ClearQueryParams(k, o)
  \/ \E i \in 1..MaxInFlight, carried \in BOOLEAN : NavResolve(i, carried)
  \/ \E i \in 1..MaxInFlight : NavReject(i)
  \/ \E r \in SharedRoutes : ExternalNavigate(r)
  \/ RouterReady
  \/ \E b \in Bindings, q \in InitialQueries : MountRender(b, q)
  \/ \E b \in Bindings : Rerender(b)
  \/ \E b \in Bindings : Effects(b)
  \/ \E b \in Bindings : DebouncedSetQueryParams(b)
  \/ \E b \in Bindings : Unmount(b)

SpecShared == InitShared /\ [][NextShared]_vars

(***************************************************************************)
(* A second store, created by another createQueryParamStore call over the  *)
(* same router and used by a component of its own.                          *)
(***************************************************************************)
\* invalidate() of the second store.
OtherInvalidate(st, query) ==
  LET r == GetSnapshotOf(OtherSchema, st, <<>>, query)
  IN [r.st EXCEPT !.snapshot = <<r.value>>]

\* The payloads and options handed to the second store's setter.
OtherPayloads == {[extra |-> Str("o")], [extra |-> Str("")]}

OtherOptions == {EmptyQuery, [keepEmptyParameters |-> TRUE]}

\* The second store's component mounts without initial query: its first
\* render reads getSnapshot({}), its mount effect resets the initialization
\* and reads again, and it subscribes.  Its schema has no default, so that its
\* first reconciliation has nothing to write.
OtherMount ==
  LET rendered == GetSnapshotOf(OtherSchema, other, <<EmptyQuery>>, rQuery).st
      st == GetSnapshotOf(OtherSchema, ResetInitialization(rendered), <<EmptyQuery>>, rQuery).st
  IN /\ ReactIdle
     /\ hasWindow
     /\ ~other.subscribed
     /\ other' = [st EXCEPT !.subscribed = TRUE]
     /\ last' = Step("otherMount", "none")
     /\ notified' = {}
     /\ UNCHANGED <<schema, routerOptions, hasWindow, routerVars, storeVars, subscribers,
                    inflight, bindingVars>>

\* The second store's setter: setQueryParams of a store of OtherSchema
\* without store-wide options.
OtherSetQueryParams(newParams, options) ==
  LET parsedParams == SafeParse(OtherSchema, newParams)
      n == SetNavigation(rQuery, rPathname, parsedParams.data, options, EmptyQuery)
  IN /\ ReactIdle
     /\ other.subscribed
     /\ parsedParams.success
     /\ Len(inflight) < MaxInFlight
     /\ inflight' = Append(inflight, [n EXCEPT !.kind = "otherSetQueryParams"])
     /\ last' = Call("otherSetQueryParams", "pending", newParams, options)
     /\ notified' = {}
     /\ UNCHANGED <<constVars, routerVars, storeVars, subscribers, bindingVars>>

\* A navigation of the second store resolves: its then-callback invalidates
\* the second store.  When the route changed, the router has emitted
\* routeChangeComplete, on which every mounted binding of the first store
\* calls its store's invalidate(), and the components render again.
OtherNavResolve(i, carried) ==
  LET n == inflight[i]
      query == IF carried THEN n.query ELSE rQuery
  IN /\ ReactIdle
     /\ i \in 1..Len(inflight)
     /\ n.kind = "otherSetQueryParams"
     /\ rQuery' = query
     /\ rPathname' = IF carried THEN n.pathname ELSE rPathname
     /\ rIsReady' = (carried \/ rIsReady)
     /\ other' = OtherInvalidate(other, query)
     /\ IF carried /\ Mounted # {}
        THEN SetStoreState(Invalidate(StoreState, query)) /\ notified' = subscribers
        ELSE UNCHANGED storeVars /\ notified' = {}
     /\ bDirty' = IF carried THEN AfterRouteChange ELSE bDirty
     /\ inflight' = RemoveAt(inflight, i)
     /\ last' = Settled("otherNavResolve", IF carried THEN "true" ELSE "false", n)
     /\ UNCHANGED <<schema, routerOptions, hasWindow, subscribers, bPhase, bInitialQuery,
                    bState, bIsInitializedRef, bDebounced, pending, committing>>

\* The routeChangeComplete listener of the second store's component, after a
\* navigation the second store did not issue: it calls its store's
\* invalidate().
OtherRouteChange ==
  /\ other.subscribed
  /\ other.previousQuery # Spread(other.initialQuery, rQuery)
  /\ other' = OtherInvalidate(other, rQuery)
  /\ last' = Step("otherRouteChange", "none")
  /\ notified' = {}
  /\ UNCHANGED <<schema, routerOptions, hasWindow, routerVars, storeVars, subscribers,
                 inflight, bindingVars>>

\* A navigation of the first store resolves.
MainNavResolve(i, carried) ==
  /\ i \in 1..Len(inflight)
  /\ inflight[i].kind # "otherSetQueryParams"
  /\ NavResolve(i, carried)

\* Two stores in a browser, each used by one component.
InitTwo ==
  /\ schema = DefaultSchema
  /\ routerOptions = EmptyQuery
  /\ hasWindow = TRUE
  /\ \E r \in SharedRoutes : rQuery = r.query /\ rPathname = r.pathname
  /\ rIsReady = FALSE
  /\ Created

NextTwo ==
  \/ \E p \in SharedPayloads : SetQueryParams(p, EmptyQuery)
  \/ \E k \in ClearKeys : ClearQueryParams(k, EmptyQuery)
  \/ \E i \in 1..MaxInFlight, carried \in BOOLEAN : MainNavResolve(i, carried)
  \/ \E i \in 1..MaxInFlight : NavReject(i)
  \/ \E r \in SharedRoutes : ExternalNavigate(r)
  \/ \E q \in InitialQueries : MountRender("A", q)
  \/ \E b \in Bindings : Rerender(b)
  \/ \E b \in Bindings : Effects(b)
  \/ OtherMount
  \/ \E p \in OtherPayloads, o \in OtherOptions : OtherSetQueryParams(p, o)
  \/ \E i \in 1..MaxInFlight, carried \in BOOLEAN : OtherNavResolve(i, carried)
  \/ OtherRouteChange

SpecTwo == InitTwo /\ [][NextTwo]_vars

\* A store whose schema has a shape or has none, in a browser, used by one
\* component; the application removes parameters and navigates.
InitClear ==
  /\ schema \in {DefaultSchema, RefinedSchema}
  /\ routerOptions = EmptyQuery
  /\ hasWindow = TRUE
  /\ \E r \in Routes : rQuery = r.query /\ rPathname = r.pathname
  /\ rIsReady = FALSE
  /\ Created

NextClear ==
  \/ \E k \in ClearKeys : ClearQueryParams(k, EmptyQuery)
  \/ \E i \in 1..MaxInFlight, carried \in BOOLEAN : NavResolve(i, carried)
  \/ \E i \in 1..MaxInFlight : NavReject(i)
  \/ \E r \in Routes : ExternalNavigate(r)
  \/ RouterReady
  \/ \E q \in InitialQueries : MountRender("A", q)
  \/ \E b \in Bindings : Rerender(b)
  \/ \E b \in Bindings : Effects(b)
  \/ \E b \in Bindings : Unmount(b)

SpecClear == InitClear /\ [][NextClear]_vars

\* Two components use a store of the schema with a default, in a browser
\* whose router is ready; the application calls a setter and navigates, and
\* nothing unmounts.
InitLive ==
  /\ schema = DefaultSchema
  /\ routerOptions = EmptyQuery
  /\ hasWindow = TRUE
  /\ \E r \in SharedRoutes : rQuery = r.query /\ rPathname = r.pathname
  /\ rIsReady = TRUE
  /\ Created

\* One component mounts in a commit, while no navigation is pending, so that
\* the first reconciliation of its effects finds room for its navigation.
MountAlone(b, q) ==
  /\ inflight = <<>>
  /\ \A c \in Bindings : bPhase[c] # "rendered"
  /\ MountRender(b, q)

\* React renders every component of a pass before it runs the effects of
\* the commit: the first effects wait for the renders scheduled.
PassEffects(b) ==
  /\ committing \/ \A c \in Bindings : ~bDirty[c]
  /\ Effects(b)

\* What the application does: it mounts a component, calls a setter or
\* navigates.
Application ==
  \/ \E p \in LivePayloads : SetQueryParams(p, EmptyQuery)
  \/ \E r \in SharedRoutes : ExternalNavigate(r)
  \/ \E b \in Bindings, q \in InitialQueries : MountAlone(b, q)

\* What the router does: it settles each navigation.
RouterSettles ==
  \/ \E i \in 1..MaxInFlight, carried \in BOOLEAN : NavResolve(i, carried)
  \/ \E i \in 1..MaxInFlight : NavReject(i)

NextLive ==
  \/ Application
  \/ RouterSettles
  \/ \E b \in Bindings : Rerender(b)
  \/ \E b \in Bindings : PassEffects(b)
  \/ \E b \in Bindings : DebouncedSetQueryParams(b)

\* React runs every render it has scheduled and the effects of every commit
\* it has rendered; the router settles every navigation;
\* every debounce timer fires.
Scheduling ==
  /\ WF_vars(\E b \in Bindings : bDirty[b] /\ Rerender(b))
  /\ WF_vars(\E b \in Bindings : PassEffects(b))
  /\ WF_vars(\E b \in Bindings : DebouncedSetQueryParams(b))
  /\ WF_vars(RouterSettles)

SpecLive == InitLive /\ [][NextLive]_vars /\ Scheduling

\* The options a store is created with and the options handed to a call,
\* where the navigation's history mode, pathname and flags are checked:
\* every recognized flag, set and unset, per call and store-wide, and
\* options that are no navigation flags.
FlagStoreOptions ==
  {EmptyQuery,
   [shallow |-> FALSE, locale |-> "en", scroll |-> FALSE, replace |-> TRUE],
   [locale |-> "en", logErrorsToConsole |-> TRUE]}

FlagCallOptions ==
  {EmptyQuery,
   [shallow |-> TRUE, locale |-> "fr", pathname |-> PostsPath],
   [replace |-> TRUE, scroll |-> TRUE, keepEmptyParameters |-> TRUE],
   [replace |-> FALSE, shallow |-> FALSE]}

\* A store of the schema with a default, created with any of these
\* options, in a browser, that two components use.
InitOptions ==
  /\ schema = DefaultSchema
  /\ routerOptions \in FlagStoreOptions
  /\ hasWindow = TRUE
  /\ \E r \in SharedRoutes : rQuery = r.query /\ rPathname = r.pathname
  /\ rIsReady = FALSE
  /\ Created

NextOptions ==
  \/ \E o \in FlagCallOptions : SetQueryParams([search |-> Str("y")], o)
  \/ \E o \in FlagCallOptions : ClearQueryParams(<<>>, Spread(o, [resetToDefaults |-> TRUE]))
  \/ \E i \in 1..MaxInFlight, carried \in BOOLEAN : NavResolve(i, carried)
  \/ \E i \in 1..MaxInFlight : NavReject(i)
  \/ \E r \in SharedRoutes : ExternalNavigate(r)
  \/ RouterReady
  \/ \E b \in Bindings, q \in InitialQueries : MountRender(b, q)
  \/ \E b \in Bindings : Rerender(b)
  \/ \E b \in Bindings : Effects(b)
  \/ \E b \in Bindings : DebouncedSetQueryParams(b)

SpecOptions == InitOptions /\ [][NextOptions]_vars

(***************************************************************************)
(* The properties.                                                         *)
(***************************************************************************)
\* z.object({ search: z.string().optional(), page: z.string().optional() }):
\* two keys, neither with a default.
PairSchema ==
  [name |-> "pair", hasShape |-> TRUE,
   shape |-> [search |-> Field("string", TRUE, FALSE, Undefined),
              page |-> Field("string", TRUE, FALSE, Undefined)]]

\* The navigation calls that may be pending at once where a second setter
\* call is made before the navigation of the first has completed.
MaxQueued == 2

\* The payloads of two setters for one key each.
RacePayloads == {[search |-> Str("y")], [page |-> Str("2")]}

\* The setter a hook returns, called while navigations are pending.
SetQueryParamsQueued(newParams, options) ==
  LET r == SetQueryParamsCall(newParams, Spread(routerOptions, options))
  IN /\ ReactIdle
     /\ \E b \in Bindings : bPhase[b] # "unmounted"
     /\ r.nav = <<>> \/ Len(inflight) < MaxQueued
     /\ inflight' = inflight \o r.nav
     /\ last' = Call("setQueryParams", r.result, newParams, options)
     /\ notified' = {}
     /\ UNCHANGED <<constVars, routerVars, storeVars, subscribers, bindingVars>>

\* A store of the schema of two optional keys, in a browser, that one
\* component uses.
InitRace ==
  /\ schema = PairSchema
  /\ routerOptions = EmptyQuery
  /\ hasWindow = TRUE
  /\ rQuery \in {EmptyQuery, [extra |-> Str("e")]}
  /\ rPathname = RootPath
  /\ rIsReady = FALSE
  /\ Created

NextRace ==
  \/ \E p \in RacePayloads : SetQueryParamsQueued(p, EmptyQuery)
  \/ \E i \in 1..MaxQueued, carried \in BOOLEAN : NavResolve(i, carried)
  \/ \E i \in 1..MaxQueued : NavReject(i)
  \/ RouterReady
  \/ MountRender("A", EmptyQuery)
  \/ \E b \in Bindings : Rerender(b)
  \/ \E b \in Bindings : Effects(b)
  \/ \E b \in Bindings : Unmount(b)

SpecRace == InitRace /\ [][NextRace]_vars

\* A quiescent mounted binding: the router is ready, the binding's first
\* reconciliation has run, no navigation is in flight and no debounced write
\* is pending.
Quiescent(b) ==
  /\ bPhase[b] = "mounted"
  /\ rIsReady
  /\ bIsInitializedRef[b]
  /\ inflight = <<>>
  /\ \A c \in Bindings : bDebounced[c] = <<>>

\* C1, as the claim states it: in every quiescent state of a mounted binding
\* the store's snapshot is the validation of the current router query.
C1_SnapshotIsValidatedRouterQuery ==
  \A b \in Bindings :
    Quiescent(b) => snapshot = <<ParseQuery(schema, rQuery)>>

\* C1, amended: in every quiescent state of a mounted binding the store's
\* snapshot is the validation of the latched initial query overlaid by the
\* current router query.
C1_SnapshotIsValidatedMergedQuery ==
  \A b \in Bindings :
    Quiescent(b) => snapshot = <<ParseQuery(schema, Spread(initialQuery, rQuery))>>

\* A quiescent mounted binding whose snapshot holds a key of the latched
\* initial query that the router query does not hold.
C1_Witness ==
  \E b \in Bindings :
    /\ Quiescent(b)
    /\ ReactIdle
    /\ snapshot # <<>>
    /\ \E k \in DOMAIN initialQuery :
         k \notin DOMAIN rQuery /\ k \in DOMAIN snapshot[1] /\ snapshot[1][k] = initialQuery[k]

\* The navigation call the latest step handed to the router.
Written == inflight[Len(inflight)]

\* The latest step made a setQueryParams call that issued a navigation; the
\* router is as the call found it.
IssuedBySetQueryParams ==
  /\ last.result = "pending"
  /\ inflight # <<>>
  /\ Written.kind = "setQueryParams"

\* C2: every setQueryParams call that issues a navigation writes every key
\* of the router query that the pathname names as a dynamic segment, with the
\* router's value.
C2_DynamicParamsKept ==
  IssuedBySetQueryParams =>
    \A k \in DOMAIN rQuery :
      PathnameIncludes(rPathname, k) =>
        k \in DOMAIN Written.query /\ Written.query[k] = rQuery[k]

\* C3: every setQueryParams call that issues a navigation writes every key
\* of the router query that is neither a dynamic segment nor a schema key,
\* with the router's value.
C3_ForeignParamsKept ==
  IssuedBySetQueryParams =>
    \A k \in DOMAIN rQuery :
      (~PathnameIncludes(rPathname, k) /\ k \notin SchemaKeys(schema)) =>
        k \in DOMAIN Written.query /\ Written.query[k] = rQuery[k]

\* The latest step is a setter call that issued a navigation.
SetterIssued == last.op = "setQueryParams" /\ last.result = "pending"

\* keepEmptyParameters is set store-wide, or per call by the latest step.
KeptStoreWide == Truthy(routerOptions, "keepEmptyParameters")

KeptPerCall == last.args # <<>> /\ Truthy(last.args[2], "keepEmptyParameters")

C5_InvalidPayloadChangesNothing ==
  [][(last'.op = "setQueryParams" /\ ~SafeParse(schema, last'.args[1]).success) =>
       /\ last'.result = "false"
       /\ inflight' = inflight
       /\ UNCHANGED <<rQuery, rPathname, snapshot, previousQuery, initialQuery, isInitialized>>
       /\ notified' = {}]_vars

\* In a browser, with a binding subscribed and a snapshot cached, a setter
\* call with a payload that does not validate has resolved false.
C5_Witness ==
  /\ hasWindow
  /\ subscribers # {}
  /\ snapshot # <<>>
  /\ last.op = "setQueryParams"
  /\ last.result = "false"
  /\ ~SafeParse(schema, last.args[1]).success

\* C6: when a navigation call of setQueryParams or of remove-mode
\* clearQueryParams rejects, the operation resolves false, snapshot and
\* previousQuery stay as they are and no subscriber is called.
C6_RejectionLeavesCache ==
  [][last'.op = "navReject" =>
       /\ last'.result = "false"
       /\ Len(inflight') < Len(inflight)
       /\ UNCHANGED <<snapshot, previousQuery>>
       /\ notified' = {}]_vars

\* With a binding subscribed and a snapshot cached, the navigation call of a
\* remove-mode clearQueryParams has rejected.
C6_Witness ==
  /\ last.op = "navReject"
  /\ last.args[1].kind = "clearQueryParams"
  /\ subscribers # {}
  /\ snapshot # <<>>

\* The latest step of the primed state is a call that issued a navigation.
WriteIssued ==
  last'.op \in {"setQueryParams", "clearQueryParams"} /\ last'.result = "pending"

\* Once the navigation resolves, the cache is the validation of the latched
\* initial query overlaid by the new router query, every subscriber has been
\* called, and the operation's promise has its value.
RefreshedOnResolve ==
  last'.op = "navResolve" =>
    /\ snapshot' = <<ParseQuery(schema, Spread(initialQuery', rQuery'))>>
    /\ notified' = subscribers
    /\ last'.result \in {"true", "false"}

\* C7, as the claim states it: a write leaves the cache as it is and calls
\* no subscriber when it is issued; when its navigation resolves the cache is
\* refreshed from the new router query and every subscriber is called.
C7_CacheUntouchedUntilResolved ==
  [][/\ WriteIssued => (UNCHANGED <<snapshot, previousQuery>> /\ notified' = {})
     /\ RefreshedOnResolve]_vars

\* The call of the primed state is clearQueryParams() in remove mode, without
\* keys, on a schema that has no shape: it reads getSnapshot({}).
ReadsSnapshotToFindKeys ==
  /\ last'.op = "clearQueryParams"
  /\ last'.args[1] = <<>>
  /\ ~Truthy(last'.args[2], "resetToDefaults")
  /\ ~schema.hasShape

\* C7, amended: a write calls no subscriber when it is issued, and leaves the
\* cache as it is unless it is a remove-mode clearQueryParams without keys on
\* a schema without a shape, which fills the cache from the current router
\* query; when the navigation resolves the cache is refreshed from the new
\* router query and every subscriber is called.
C7_NotifiedOnlyOnceResolved ==
  [][/\ WriteIssued =>
          /\ notified' = {}
          /\ IF ReadsSnapshotToFindKeys
             THEN snapshot' = <<ParseQuery(schema, Spread(initialQuery', rQuery))>>
             ELSE UNCHANGED <<snapshot, previousQuery>>
     /\ RefreshedOnResolve]_vars

\* The navigation of a write has resolved while both bindings were
\* subscribed: both were called, and the snapshot holds a value the write
\* put into the router query.
C7_Witness ==
  /\ last.op = "navResolve"
  /\ last.result = "true"
  /\ notified = Bindings
  /\ last.args[1].query = rQuery
  /\ \E k \in DOMAIN rQuery :
       k \in DOMAIN snapshot[1] /\ k \notin DOMAIN initialQuery /\ snapshot[1][k] = rQuery[k]

\* C8: without a window, setQueryParams and clearQueryParams in either mode
\* resolve false, issue no navigation, leave the store's state and the router
\* as they are and call no subscriber.
C8_NoWindowNoWrite ==
  [][(~hasWindow /\ last'.op \in {"setQueryParams", "clearQueryParams"}) =>
       /\ last'.result = "false"
       /\ inflight' = inflight
       /\ UNCHANGED <<storeVars, routerVars>>
       /\ notified' = {}]_vars

\* Without a window, after a component has rendered, a remove-mode
\* clearQueryParams has resolved false.
C8_Witness ==
  /\ ~hasWindow
  /\ snapshot = <<>>
  /\ \E b \in Bindings : bPhase[b] = "rendered"
  /\ last.op = "clearQueryParams"
  /\ ~Truthy(last.args[2], "resetToDefaults")
  /\ last.result = "false"

\* The arguments getSnapshot is called with: none, or an initialQuery.
SnapshotArgs == {<<>>} \cup {<<q>> : q \in InitialQueries}

\* C9: on the client, in every reachable state, getSnapshot returns the
\* validation of the latched initial query overlaid by the current router
\* query, whatever is cached.
C9_SnapshotOfMergedQuery ==
  hasWindow =>
    \A arg \in SnapshotArgs :
      LET r == GetSnapshot(StoreState, arg, rQuery)
      IN r.value = ParseQuery(schema, Spread(r.st.initialQuery, rQuery))

\* After an external navigation, with a binding mounted: the router's value
\* is read for a key both queries hold, and the initial value for a key only
\* the latched initial query holds.
C9_Witness ==
  /\ hasWindow
  /\ last.op = "external"
  /\ Mounted # {}
  /\ LET value == GetSnapshot(StoreState, <<>>, rQuery).value
     IN /\ \E k \in (DOMAIN initialQuery) \cap (DOMAIN rQuery) :
             /\ initialQuery[k] # rQuery[k]
             /\ k \in DOMAIN value
             /\ value[k] = rQuery[k]
        /\ \E k \in (DOMAIN initialQuery) \ (DOMAIN rQuery) :
             k \in DOMAIN value /\ value[k] = initialQuery[k]

\* The query getSnapshot validates: the merged one on the client, the latched
\* initial one on the server.
Validated(st) == IF hasWindow THEN Spread(st.initialQuery, rQuery) ELSE st.initialQuery

\* C10: when the query it validates does not pass the schema, getSnapshot
\* returns the validation of {} as a whole, and the empty mapping when {}
\* does not pass either.
C10_FallsBackToDefaults ==
  \A arg \in SnapshotArgs :
    LET r == GetSnapshot(StoreState, arg, rQuery)
        defaults == SafeParse(schema, EmptyQuery)
    IN ~SafeParse(schema, Validated(r.st)).success =>
         r.value = IF defaults.success THEN defaults.data ELSE EmptyQuery

\* A mounted binding renders the schema's defaults while the merged query,
\* which holds keys, does not pass the schema.
C10_Witness ==
  \E b \in Mounted :
    /\ ~bDirty[b]
    /\ SafeParse(schema, EmptyQuery).success
    /\ ~SafeParse(schema, Validated(StoreState)).success
    /\ bState[b] = SafeParse(schema, EmptyQuery).data
    /\ bState[b] # EmptyQuery

\* The value passes the schema unchanged: validating it succeeds and gives
\* the value back.
SatisfiesSchema(value) ==
  SafeParse(schema, value).success /\ SafeParse(schema, value).data = value

\* C11, as the claim states it: every value getSnapshot returns, in every
\* reachable state, satisfies the schema and holds no key the schema does
\* not declare.
C11_SnapshotSatisfiesSchema ==
  \A arg \in SnapshotArgs :
    LET r == GetSnapshot(StoreState, arg, rQuery)
    IN SatisfiesSchema(r.value) /\ DOMAIN r.value \subseteq SchemaKeys(schema)

\* C11, amended: every value getSnapshot returns holds no key the schema does
\* not declare, and satisfies the schema unless it is the empty mapping
\* returned when neither the query it validates nor {} passes the schema.
C11_SnapshotSatisfiesSchemaOrIsEmpty ==
  \A arg \in SnapshotArgs :
    LET r == GetSnapshot(StoreState, arg, rQuery)
    IN /\ DOMAIN r.value \subseteq SchemaKeys(schema)
       /\ \/ SatisfiesSchema(r.value)
          \/ /\ r.value = EmptyQuery
             /\ ~SafeParse(schema, Validated(r.st)).success
             /\ ~SafeParse(schema, EmptyQuery).success

\* A mounted binding renders the cached snapshot, which validates a router
\* query holding a key the schema does not declare and holds a value of it.
C11_Witness ==
  \E b \in Mounted :
    /\ hasWindow
    /\ ~bDirty[b]
    /\ snapshot = <<bState[b]>>
    /\ SafeParse(schema, Validated(StoreState)).success
    /\ (DOMAIN rQuery) \ SchemaKeys(schema) # {}
    /\ \E k \in DOMAIN bState[b] : k \in DOMAIN rQuery /\ bState[b][k] = rQuery[k]

\* Binding b renders for the first time in this step.
FirstRenderOf(b) == bPhase[b] = "unmounted" /\ bPhase'[b] = "rendered"

\* The effects of binding b's mount run in this step.
MountEffectsOf(b) == bPhase[b] = "rendered" /\ bPhase'[b] = "mounted"

MergedValue == ParseQuery(schema, Spread(initialQuery, rQuery))

\* The values a read may return once an external navigation has completed.
ExternalValues ==
  {ParseQuery(s, Spread(q, r.query)) :
     s \in Schemas \cup {RefinedSchema}, q \in InitialQueries, r \in Routes \cup SharedRoutes}

\* An external navigation has just completed while a binding was mounted.
ExternalCompleted == last.op = "external" /\ Mounted # {}

\* C13: once an external navigation completes and the router emits
\* routeChangeComplete, every mounted binding's subscriber has been called
\* and the next read returns the validation of the latched initial query
\* overlaid by the new router query; eventually every mounted binding has
\* rendered that value.
C13_ExternalNavigationReachesBindings ==
  /\ [](ExternalCompleted =>
          /\ subscribers = Mounted
          /\ notified = Mounted
          /\ GetSnapshot(StoreState, <<>>, rQuery).value = MergedValue)
  /\ \A b \in Bindings, value \in ExternalValues :
       (ExternalCompleted /\ b \in Mounted /\ MergedValue = value) ~> (bState[b] = value)

\* An external navigation has completed while both bindings were mounted:
\* both subscribers were called, and what each has rendered is no longer
\* what a read returns.
C13_Witness ==
  /\ ExternalCompleted
  /\ Mounted = Bindings
  /\ notified = Bindings
  /\ \A b \in Bindings : bState[b] # MergedValue

\* The effects that ran in the latest step made the first reconciliation's
\* setQueryParams call, which issued a navigation; the router is as the call
\* found it.
ReconciliationIssued == last.op = "effects" /\ last.result = "pending"

\* The schema's defaults: the validation of {}.
SchemaDefaults == SafeParse(schema, EmptyQuery).data

IsWritten(value) == KeptStoreWide \/ ~IsEmpty(value)

RemovalIssued ==
  /\ last.op = "clearQueryParams"
  /\ last.result = "pending"
  /\ ~Truthy(last.args[2], "resetToDefaults")

\* The keys handed to the latest clearQueryParams call, if any.
ExplicitKeys == last.args[1]

\* C15, as the claim states it: a remove-mode clearQueryParams navigates to
\* the router query without the explicit keys when keys are given, and without
\* every key the schema declares otherwise; every other key keeps its value.
C15_RemovesDeclaredKeys ==
  RemovalIssued =>
    Written.query =
      Without(rQuery, IF ExplicitKeys # <<>> THEN ExplicitKeys[1] ELSE SchemaKeys(schema))

\* C15, amended: without explicit keys, the keys removed are the keys the
\* schema declares when the schema has a shape, and the keys of the current
\* snapshot when it has none.
C15_RemovesDeclaredOrSnapshotKeys ==
  RemovalIssued =>
    /\ Written.kind = "clearQueryParams"
    /\ Written.query =
         Without(rQuery, IF ExplicitKeys # <<>> THEN ExplicitKeys[1]
                         ELSE IF schema.hasShape THEN SchemaKeys(schema)
                         ELSE DOMAIN MergedValue)

\* A clearQueryParams call without keys, on a schema without a shape, has
\* issued a navigation that removes a key of the router query and keeps
\* another one.
C15_Witness ==
  /\ RemovalIssued
  /\ ExplicitKeys = <<>>
  /\ ~schema.hasShape
  /\ (DOMAIN rQuery) \ (DOMAIN Written.query) # {}
  /\ \E k \in DOMAIN Written.query : Written.query[k] = rQuery[k]

\* C16: every remove-mode clearQueryParams call that issues a navigation,
\* with or without explicit keys, passes the router every key of the router
\* query that the pathname names as a dynamic segment, with the router's
\* value.
C16_ClearKeepsDynamicParams ==
  RemovalIssued =>
    \A k \in DOMAIN rQuery :
      PathnameIncludes(rPathname, k) =>
        k \in DOMAIN Written.query /\ Written.query[k] = rQuery[k]

\* The latest step is clearQueryParams(undefined, { resetToDefaults: true }),
\* which issued a navigation; the router is as the call found it.
ResetIssued ==
  /\ last.op = "clearQueryParams"
  /\ last.result = "pending"
  /\ Truthy(last.args[2], "resetToDefaults")
  /\ last.args[1] = <<>>

\* C17: the navigation clearQueryParams(undefined, { resetToDefaults: true })
\* issues, which the router holds once it completes, holds every schema key
\* that has a default with that default, and every key of the router query
\* that the schema does not declare with the router's value.
C17_ResetWritesDefaultsKeepsForeign ==
  ResetIssued =>
    /\ \A k \in SchemaKeys(schema) :
         schema.shape[k].hasDefault =>
           k \in DOMAIN Written.query /\ Written.query[k] = schema.shape[k].default
    /\ \A k \in (DOMAIN rQuery) \ SchemaKeys(schema) :
         k \in DOMAIN Written.query /\ Written.query[k] = rQuery[k]

\* The steps in which the second store or its component acts.
OtherOps == {"otherMount", "otherSetQueryParams", "otherNavResolve", "otherRouteChange"}

\* The navigation call the step has handed to the router.
WrittenNext == inflight'[Len(inflight')]

\* The step is a write through the first store that issued a navigation.
MainWriteIssued ==
  /\ last'.op \in {"setQueryParams", "clearQueryParams", "effects"}
  /\ last'.result = "pending"

\* The navigation the step issued keeps every key of ks that the router query
\* holds, with the router's value.
KeepsKeys(ks) ==
  \A k \in (DOMAIN rQuery) \cap ks :
    k \in DOMAIN WrittenNext.query /\ WrittenNext.query[k] = rQuery[k]

\* No step of the first store or of its components changes the second
\* store's state or subscription.
FirstStoreLeavesSecond == last'.op \notin OtherOps => UNCHANGED other

\* No operation of the second store changes the first store's state or
\* subscriber set; when a navigation of the second store changes the route,
\* the listeners of the first store's mounted bindings refresh its cache.
SecondStoreLeavesFirst ==
  /\ last'.op \in {"otherMount", "otherSetQueryParams", "otherRouteChange"} =>
       UNCHANGED <<storeVars, subscribers>>
  /\ last'.op = "otherNavResolve" =>
       /\ UNCHANGED <<initialQuery, isInitialized, subscribers>>
       /\ Mounted = {} => UNCHANGED <<snapshot, previousQuery>>

\* C18: two stores over one router share no state: no operation of one store
\* changes the other store's snapshot, previousQuery, latched initial query
\* or subscribers, and a write through one store passes the router every key
\* of the router query that only the other store's schema declares, with the
\* router's value.
C18_StoresShareNoState ==
  [][/\ FirstStoreLeavesSecond
     /\ SecondStoreLeavesFirst
     /\ MainWriteIssued => KeepsKeys(SchemaKeys(OtherSchema) \ SchemaKeys(schema))
     /\ last'.op = "otherSetQueryParams" =>
          KeepsKeys(SchemaKeys(schema) \ SchemaKeys(OtherSchema))]_vars

\* The step fires the debounce timer of binding b.
TimerFires(b) ==
  last'.op = "debounced" /\ bDebounced[b] # <<>> /\ bDebounced'[b] = <<>>

\* C19: an unmounted binding has no debounced write-back pending and no
\* callback in the store's subscriber set; its unmount issues no navigation,
\* and only the debounce timer of a mounted binding fires.
C19_NoWriteBackAfterUnmount ==
  /\ [](\A b \in Bindings :
          bPhase[b] # "mounted" => (bDebounced[b] = <<>> /\ b \notin subscribers))
  /\ [][/\ last'.op = "unmount" => inflight' = inflight
        /\ \A b \in Bindings : TimerFires(b) => (bPhase[b] = "mounted" /\ bPhase'[b] = "mounted")]_vars

\* A binding has unmounted while its debounced write-back was pending: the
\* write-back is cancelled and no navigation was issued.
C19_Witness ==
  /\ last.op = "unmount"
  /\ last.args[1] # <<>>
  /\ inflight = <<>>
  /\ \E b \in Bindings : bPhase[b] = "unmounted" /\ bDebounced[b] = <<>>

\* A render of binding b followed by its effects would schedule no write:
\* the first reconciliation has nothing to sync, and the state the render
\* reads is the parsed router query that the synchronization effect compares
\* it with.
RunSchedulesNothing(b) ==
  \E r \in {GetSnapshot(StoreState, <<bInitialQuery[b]>>, rQuery)} :
    /\ SyncEffect(r.st, b).call = <<>>
    /\ r.value = GetSnapshot(r.st, <<>>, rQuery).value

\* No navigation is in flight, no debounced write is pending, React has no
\* render and no effect to run, and no effect run would schedule a write.
Settled20 ==
  /\ inflight = <<>>
  /\ \A b \in Bindings : bDebounced[b] = <<>>
  /\ ReactIdle
  /\ \A b \in Mounted : RunSchedulesNothing(b)

\* C20: once the application makes no further setter call, external
\* navigation or mount, the system reaches, and stays in, a state with no
\* navigation in flight and no debounced write pending in which no effect
\* run schedules another write.
C20_WritesSettle ==
  <>[][~Application]_vars => <>[]Settled20


\* Both bindings are mounted and reconciled, a setter's value has reached a
\* URL that an external navigation set, and the system has settled: the
\* latest effect run scheduled nothing.
C20_Witness ==
  /\ Settled20
  /\ Mounted = Bindings
  /\ \A b \in Bindings : bIsInitializedRef[b]
  /\ rQuery = [status |-> Str("sent"), search |-> Str("y")]
  /\ last.op = "effects"
  /\ last.result = "none"

\* The navigation a successful setQueryParams(p, o) of the hook's setter
\* writes on the route (pathname, query).
SetterNavigation(query, pathname, p, o) ==
  SetNavigation(query, pathname, SafeParse(schema, p).data,
                Spread(routerOptions, o), routerOptions)

\* The same call made again on the route its first navigation leaves.
RepeatedNavigation(query, pathname, p, o) ==
  \E n \in {SetterNavigation(query, pathname, p, o)} :
    SetterNavigation(n.query, n.pathname, p, o).query = n.query

\* The step resolves a navigation of setQueryParams that carries true and
\* writes the route the router already holds: the second of two successive
\* calls with the same payload and options.
RepeatResolves ==
  /\ last'.op = "navResolve"
  /\ last'.result = "true"
  /\ last'.args[1].kind = "setQueryParams"
  /\ last'.args[1].query = rQuery
  /\ last'.args[1].pathname = rPathname
  /\ rIsReady

\* C21: a successful setQueryParams(p) repeated with the same options on the
\* route its first call leaves writes the same router query; once the
\* repeated call resolves, no debounced write-back is scheduled and the
\* render and effect run it causes in a mounted binding issue no
\* reconciliation write and schedule no write-back.
C21_RepeatedSetIsIdempotent ==
  /\ [](hasWindow =>
          \A p \in Payloads, o \in CallOptions :
            SafeParse(schema, p).success => RepeatedNavigation(rQuery, rPathname, p, o))
  /\ [][RepeatResolves =>
          /\ rQuery' = rQuery
          /\ Len(inflight') = Len(inflight) - 1
          /\ bDebounced' = bDebounced
          /\ \A b \in Mounted : RunSchedulesNothing(b)']_vars

\* What reading obj[k] gives: undefined for a key obj does not hold.
Read(obj, k) == IF k \in DOMAIN obj THEN obj[k] ELSE Undefined

\* The step resolves, with true, the navigation of the setter call that the
\* step before made.
SetterResolves ==
  /\ last.op = "setQueryParams"
  /\ last.result = "pending"
  /\ last'.op = "navResolve"
  /\ last'.result = "true"
  /\ last'.args = <<Written>>

\* The value getSnapshot() returns after the step.
NextSnapshot == GetSnapshot(StoreState, <<>>, rQuery)'.value

\* Key k of the validated payload v reads back from snapshot snap: as
\* written when the value is not empty or empty values are kept, and else
\* as absent or as the schema's default.
ReadsBack(snap, v, k, kept) ==
  IF kept \/ ~IsEmpty(v[k])
  THEN Read(snap, k) = v[k]
  ELSE Read(snap, k) \in {Undefined, Read(SchemaDefaults, k)}

\* The same, where a key whose empty value was stripped reads as the
\* latched initial query gives it, if it does.
ReadsBackOrInitial(snap, v, k, kept) ==
  IF kept \/ ~IsEmpty(v[k])
  THEN Read(snap, k) = v[k]
  ELSE IF Given(initialQuery, k)
  THEN Read(snap, k) = initialQuery[k]
  ELSE Read(snap, k) \in {Undefined, Read(SchemaDefaults, k)}

\* C22, as the claim states it: after a successful setQueryParams(v) the
\* next getSnapshot() agrees with the validated v on every key of v, modulo
\* the stripping of empty values.
C22_SetThenGetRoundTrips ==
  [][SetterResolves =>
       \A k \in DOMAIN SafeParse(schema, last.args[1]).data :
         ReadsBack(NextSnapshot, SafeParse(schema, last.args[1]).data, k,
                   KeptStoreWide \/ KeptPerCall)]_vars

\* C22, amended: after a successful setQueryParams(v) that leaves a merged
\* query (latched initial query under router query) the schema accepts, the
\* next getSnapshot() agrees with the validated v on every key of v that is
\* not a dynamic route param of the current pathname: it reads v's value
\* when that is not empty or empty values are kept, and else the latched
\* initial query's value, if it has one, or absent or the schema's default.
C22_SetThenGetRoundTripsWhereValid ==
  [][(SetterResolves /\ SafeParse(schema, Spread(initialQuery, rQuery')).success) =>
       \A k \in DOMAIN SafeParse(schema, last.args[1]).data
                  \ DOMAIN ExtractDynamicParams(rQuery, rPathname) :
         ReadsBackOrInitial(NextSnapshot, SafeParse(schema, last.args[1]).data, k,
                            KeptStoreWide \/ KeptPerCall)]_vars

\* A setter's navigation has resolved and the snapshot holds the value it
\* wrote over the one of the latched initial query.
C22_Witness ==
  /\ last.op = "navResolve"
  /\ last.result = "true"
  /\ last.args[1].kind = "setQueryParams"
  /\ Read(last.args[1].query, "search") = Str("y")
  /\ Read(initialQuery, "search") = Str("")
  /\ snapshot # <<>>
  /\ Read(snapshot[1], "search") = Str("y")

\* The options the caller of store.setQueryParams passed in the latest step:
\* a hook's setter and reset-mode clearQueryParams pass the store-wide
\* options under the call's, first reconciliation passes replace and
\* shallow, the debounced write-back passes shallow under the store-wide
\* options.
PassedOptions ==
  IF last.op \in {"setQueryParams", "clearQueryParams"} THEN Spread(routerOptions, last.args[2])
  ELSE IF last.op = "effects" THEN [replace |-> TRUE, shallow |-> TRUE]
  ELSE Spread(Only("shallow", TRUE), routerOptions)

\* The latest step called store.setQueryParams, which issued a navigation.
NavigationIssued ==
  /\ last.op \in {"setQueryParams", "clearQueryParams", "effects", "debounced"}
  /\ last.result = "pending"
  /\ inflight # <<>>
  /\ Written.kind = "setQueryParams"

\* The flags the router recognizes.
NavigationFlags == {"shallow", "locale", "scroll"}

\* The value of flag f for a call with options o: <<>> when it is passed to
\* the router by nobody.
FlagFor(o, f) ==
  IF f \in DOMAIN o THEN <<o[f]>>
  ELSE IF f \in DOMAIN routerOptions THEN <<routerOptions[f]>>
  ELSE IF f = "shallow" THEN <<TRUE>>
  ELSE <<>>

\* C23: every navigation issued by setQueryParams uses replace exactly when
\* the call's or the store-wide replace option is set, targets the call's
\* pathname option or else the current pathname, and passes only shallow,
\* locale and scroll, each from the call's options, else from the
\* store-wide options, else, for shallow, true.
C23_NavigationFollowsOptions ==
  NavigationIssued =>
    /\ Written.method = IF Truthy(PassedOptions, "replace") \/ Truthy(routerOptions, "replace")
                        THEN "replace" ELSE "push"
    /\ Written.pathname = IF "pathname" \in DOMAIN PassedOptions
                          THEN PassedOptions["pathname"] ELSE rPathname
    /\ DOMAIN Written.options \subseteq NavigationFlags
    /\ \A f \in NavigationFlags :
         FlagFor(PassedOptions, f) =
           IF f \in DOMAIN Written.options THEN <<Written.options[f]>> ELSE <<>>

\* A setter call with its own shallow, locale and pathname on a store
\* created with shallow false, scroll false and replace has issued its
\* navigation.
C23_Witness ==
  /\ NavigationIssued
  /\ last.op = "setQueryParams"
  /\ last.args[2] = [shallow |-> TRUE, locale |-> "fr", pathname |-> PostsPath]
  /\ routerOptions = [shallow |-> FALSE, locale |-> "en", scroll |-> FALSE, replace |-> TRUE]
  /\ Written.method = "replace"
  /\ Written.options = [shallow |-> TRUE, locale |-> "fr", scroll |-> FALSE]

\* C24: the promise of setQueryParams and of clearQueryParams resolves true
\* exactly when the navigation call completed without rejecting, whatever
\* value the router's promise carried, and false on the server, for a
\* payload that does not validate and when the navigation rejects.
C24_ResolvesTrueIffNavigated ==
  /\ last.op = "navResolve" => last.result = "true"
  /\ last.op = "navReject" => last.result = "false"
  /\ (last.op \in {"setQueryParams", "clearQueryParams"} /\ ~hasWindow) => last.result = "false"
  /\ (last.op = "setQueryParams" /\ ~SafeParse(schema, last.args[1]).success)
       => last.result = "false"
  /\ last.result = "true" => last.op = "navResolve"

\* The step runs a mount effect, which calls resetInitialization.
ResetStep == \E b \in Bindings : MountEffectsOf(b)

\* C25: between two resetInitialization calls the latched initial query is
\* assigned at most once, by a getSnapshot call that passes a non-empty
\* initialQuery to the uninitialized store; a call with an empty or absent
\* initialQuery, and a later call with a different one, leave isInitialized
\* and initialQuery as they are.
C25_LatchedOnceByNonEmptyQuery ==
  [][/\ (isInitialized /\ ~ResetStep) => (isInitialized' /\ initialQuery' = initialQuery)
     /\ (isInitialized' /\ (~isInitialized \/ ResetStep)) => initialQuery' # EmptyQuery
     /\ ~isInitialized' => initialQuery' = EmptyQuery]_vars

EffectsRunOf(b) == pending # <<>> /\ Head(pending) = b /\ pending' = Tail(pending)

\* C27: while the router is not ready, an effect run of a binding issues no
\* navigation, schedules no debounced write-back and does not take the
\* first-reconciliation branch (the binding stays uninitialized).
C27_NoWriteWhileNotReady ==
  [][\A b \in Bindings : (EffectsRunOf(b) /\ ~rIsReady) =>
       /\ inflight' = inflight
       /\ bDebounced' = bDebounced
       /\ bIsInitializedRef' = bIsInitializedRef
       /\ last'.result = "none"]_vars

\* An effect run has ended with the router not ready, for a binding whose
\* initial query has a key the router query lacks: nothing was written.
C27_Witness ==
  /\ last.op = "effects"
  /\ ~rIsReady
  /\ inflight = <<>>
  /\ \E b \in Mounted :
       /\ HasKeysToSync(bInitialQuery[b], rQuery)
       /\ ~bIsInitializedRef[b]
       /\ bDebounced[b] = <<>>

\* C28: a binding takes the first-reconciliation branch on its first effect
\* run with the router ready and on no other: that run marks the binding
\* initialized, schedules no debounced write and issues at most one
\* navigation, a router.replace with shallow true; the mark stays until the
\* binding unmounts, and an effect run of a marked binding issues no
\* navigation.
C28_FirstReconciliationOnce ==
  [][\A b \in Bindings :
       /\ (EffectsRunOf(b) /\ rIsReady /\ ~bIsInitializedRef[b]) =>
            /\ bIsInitializedRef'[b]
            /\ bDebounced' = bDebounced
            /\ \/ inflight' = inflight /\ last'.result \in {"none", "false"}
               \/ /\ Len(inflight') = Len(inflight) + 1
                  /\ inflight' = Append(inflight, WrittenNext)
                  /\ last'.result = "pending"
                  /\ WrittenNext.kind = "setQueryParams"
                  /\ WrittenNext.method = "replace"
                  /\ "shallow" \in DOMAIN WrittenNext.options
                  /\ WrittenNext.options["shallow"] = TRUE
       /\ (EffectsRunOf(b) /\ bIsInitializedRef[b]) =>
            inflight' = inflight /\ last'.result = "none"
       /\ (bIsInitializedRef[b] /\ bPhase'[b] # "unmounted") => bIsInitializedRef'[b]
       /\ (bIsInitializedRef'[b] /\ ~bIsInitializedRef[b]) => (EffectsRunOf(b) /\ rIsReady)]_vars

\* First reconciliation has issued its navigation on a store created with
\* shallow false: a router.replace with shallow true.
C28_Witness ==
  /\ ReconciliationIssued
  /\ "shallow" \in DOMAIN routerOptions
  /\ routerOptions["shallow"] = FALSE
  /\ inflight # <<>>
  /\ Written.method = "replace"
  /\ Written.options["shallow"] = TRUE
  /\ \E b \in Mounted : bIsInitializedRef[b]

\* The step is the first reconciliation of binding b: its effects run with
\* the router ready and the binding not yet marked initialized.
FirstReconciliationOf(b) == EffectsRunOf(b) /\ rIsReady /\ ~bIsInitializedRef[b]

\* The store's snapshot as the synchronization effect of binding b reads it,
\* after the mount effect when the binding is mounting.
SnapshotAtEffect(b) ==
  GetSnapshot(IF bPhase[b] = "rendered" THEN MountEffect(StoreState, b) ELSE StoreState,
              <<>>, rQuery).value

\* The step makes the setQueryParams call with this payload and first
\* reconciliation's options when wanted holds, and no call otherwise.
WritesExactlyWhen(wanted, payload) ==
  IF wanted
  THEN \E call \in {SetQueryParamsCall(payload, [replace |-> TRUE, shallow |-> TRUE])} :
         last'.result = call.result /\ inflight' = inflight \o call.nav
  ELSE last'.result = "none" /\ inflight' = inflight

\* C29: first reconciliation makes its setQueryParams call exactly when a
\* schema default or a key of the binding's initial query with a defined
\* value is absent from the router query, or the binding's rendered state
\* differs from the store's snapshot of the live router query; the payload
\* is the merge of schema defaults, initial query, router query and the
\* store's current state, later ones overriding.
C29_ReconciliationWritesExactlyWhen ==
  [][\A b \in Bindings : FirstReconciliationOf(b) =>
       WritesExactlyWhen(\/ HasKeysToSync(SchemaDefaults, rQuery)
                         \/ HasKeysToSync(bInitialQuery[b], rQuery)
                         \/ bState[b] # SnapshotAtEffect(b),
                         MergedState(SchemaDefaults, bInitialQuery[b], rQuery,
                                     SnapshotAtEffect(b)))]_vars

\* C30: on every effect run, with the router ready, of a binding that has
\* done its first reconciliation, the debounced write-back is scheduled with
\* the binding's rendered state and shallow true under the store-wide
\* options exactly when the rendered state is not the store's current
\* snapshot; otherwise nothing is scheduled; no navigation is issued by the
\* run itself.
C30_WriteBackExactlyWhenStateDiffers ==
  [][\A b \in Bindings : (EffectsRunOf(b) /\ rIsReady /\ bIsInitializedRef[b]) =>
       /\ inflight' = inflight
       /\ \A c \in Bindings \ {b} : bDebounced'[c] = bDebounced[c]
       /\ IF bState[b] # SnapshotAtEffect(b)
          THEN /\ Len(bDebounced'[b]) = 1
               /\ bDebounced'[b][1].params = bState[b]
               /\ bDebounced'[b][1].options = Spread(Only("shallow", TRUE), routerOptions)
          ELSE bDebounced'[b] = bDebounced[b]]_vars

\* An effect run has scheduled the write-back of a rendered state that is not
\* the store's snapshot, on a store created with shallow false.
C30_Witness ==
  /\ last.op = "effects"
  /\ last.result = "none"
  /\ rIsReady
  /\ \E b \in Mounted :
       /\ bIsInitializedRef[b]
       /\ bDebounced[b] # <<>>
       /\ bDebounced[b][1].params = bState[b]
       /\ bState[b] # GetSnapshot(StoreState, <<>>, rQuery).value
       /\ bDebounced[b][1].options =
            [shallow |-> FALSE, locale |-> "en", scroll |-> FALSE, replace |-> TRUE]

\* C31: a binding has at most one debounced write-back pending; an effect
\* run that schedules one while another is pending leaves its own alone
\* pending; and when the timer fires exactly one setQueryParams call is
\* made, with the arguments of the last scheduling, after which nothing is
\* pending: a superseded write-back never executes.
C31_LastSchedulingWins ==
  /\ [](\A b \in Bindings : Len(bDebounced[b]) <= 1)
  /\ [][\A b \in Bindings :
          /\ (EffectsRunOf(b) /\ bDebounced'[b] # bDebounced[b]) =>
               /\ Len(bDebounced'[b]) = 1
               /\ bDebounced'[b][1].params = bState[b]
               /\ bDebounced'[b][1].options = Spread(Only("shallow", TRUE), routerOptions)
          /\ TimerFires(b) =>
               \E call \in {SetQueryParamsCall(bDebounced[b][Len(bDebounced[b])].params,
                                               bDebounced[b][Len(bDebounced[b])].options)} :
                 /\ inflight' = inflight \o call.nav
                 /\ last'.result = call.result]_vars

\* An effect run has scheduled a write-back over a pending one with other
\* arguments: the new one alone is pending.
C31_Witness ==
  /\ last.op = "effects"
  /\ last.args # <<>>
  /\ last.args[1] # <<>>
  /\ \E b \in Mounted :
       /\ Len(bDebounced[b]) = 1
       /\ bDebounced[b][1].params # last.args[1][1].params
       /\ bDebounced[b][1].params = bState[b]

\* The step is a navigation made outside the store that completes while a
\* binding listens to routeChangeComplete.
RouteChangeHeard == last'.op = "external" /\ Mounted # {}

\* C32: handling routeChangeComplete refreshes the store's cache from the
\* route the router now holds and calls every subscriber; it issues no
\* navigation, leaves the router on the route navigated to, and leaves the
\* latched initial query and every pending debounced write unchanged.
C32_RouteChangeOnlyInvalidates ==
  [][RouteChangeHeard =>
       /\ inflight' = inflight
       /\ bDebounced' = bDebounced
       /\ initialQuery' = initialQuery
       /\ isInitialized' = isInitialized
       /\ Route(rPathname', rQuery') \in SharedRoutes
       /\ snapshot' = <<ParseQuery(schema, Spread(initialQuery, rQuery'))>>
       /\ previousQuery' = Spread(initialQuery, rQuery')
       /\ notified' = subscribers
       /\ subscribers' = subscribers
       /\ bState' = bState]_vars

\* An external navigation has completed while a binding was mounted with a
\* debounced write-back pending and a non-empty latched initial query: the
\* cache holds the new route's validation and the write-back is still
\* pending.
C32_Witness ==
  /\ last.op = "external"
  /\ notified # {}
  /\ initialQuery # EmptyQuery
  /\ snapshot = <<ParseQuery(schema, Spread(initialQuery, rQuery))>>
  /\ \E b \in Mounted : bDebounced[b] # <<>>

\* C33: the subscriber set holds exactly the callbacks of the bindings
\* subscribed and not yet unsubscribed; an unmount removes exactly the
\* unmounting binding's callback; calling an unsubscribe function again
\* changes nothing; and with every binding unmounted the set is empty.
C33_SubscribersAreTheMounted ==
  /\ [](subscribers = Mounted)
  /\ []((\A b \in Bindings : bPhase[b] = "unmounted") => subscribers = {})
  /\ [](\A b \in Bindings :
          Unsubscribe(Unsubscribe(subscribers, b), b) = Unsubscribe(subscribers, b))
  /\ [][\A b \in Bindings :
          (bPhase[b] = "mounted" /\ bPhase'[b] = "unmounted") =>
            (b \in subscribers /\ subscribers' = subscribers \ {b})]_vars

\* One of two subscribed bindings has unmounted: the other's callback alone
\* is left in the set.
C33_Witness ==
  /\ last.op = "unmount"
  /\ \E b \in Bindings :
       /\ bPhase[b] = "unmounted"
       /\ subscribers = Bindings \ {b}

\* A getSnapshot call with argument arg in the current state, on the client:
\* when a snapshot is cached and the merged query (latched initial query
\* under router query, after the call's latching) equals previousQuery, it
\* returns the cached value and leaves both as they are; otherwise it stores
\* the merged query and its validation and returns the latter.
CachedOrRecomputed(arg) ==
  \E r \in {GetSnapshot(StoreState, arg, rQuery)} :
    \E mergedQuery \in {Spread(r.st.initialQuery, rQuery)} :
      IF snapshot # <<>> /\ previousQuery = mergedQuery
      THEN /\ r.value = snapshot[1]
           /\ r.st.snapshot = snapshot
           /\ r.st.previousQuery = previousQuery
      ELSE /\ r.value = ParseQuery(schema, mergedQuery)
           /\ r.st.snapshot = <<ParseQuery(schema, mergedQuery)>>
           /\ r.st.previousQuery = mergedQuery

\* C34: on the client every getSnapshot call reuses the cache exactly when
\* the merged query equals previousQuery and a snapshot is cached, and in
\* every reachable state a cached snapshot is the validation of
\* previousQuery.
C34_SnapshotIsParseOfPreviousQuery ==
  /\ snapshot # <<>> => (hasWindow /\ snapshot = <<ParseQuery(schema, previousQuery)>>)
  /\ hasWindow => \A arg \in {<<>>} \cup {<<q>> : q \in InitialQueries} :
                    CachedOrRecomputed(arg)

\* A render has read the snapshot of a store that caches the validation of a
\* non-empty latched initial query merged under a router query with other
\* keys.
C34_Witness ==
  /\ last.op = "render"
  /\ snapshot # <<>>
  /\ initialQuery # EmptyQuery
  /\ rQuery # EmptyQuery
  /\ previousQuery = Spread(initialQuery, rQuery)
  /\ previousQuery # rQuery
  /\ snapshot[1] # previousQuery

\* The step resolves, with true, the navigation of the reset-to-defaults
\* clearQueryParams call for named keys that the step before made.
ResetResolves ==
  /\ last.op = "clearQueryParams"
  /\ last.result = "pending"
  /\ last.args[1] # <<>>
  /\ Truthy(last.args[2], "resetToDefaults")
  /\ last'.op = "navResolve"
  /\ last'.result = "true"
  /\ last'.args = <<Written>>

\* Every schema key the router query holds, other than those of named, is in
\* the router query after the step with the same value.
OtherSchemaKeysKept(named) ==
  \A k \in (SchemaKeys(schema) \cap DOMAIN rQuery) \ named :
    k \in DOMAIN rQuery' /\ rQuery'[k] = rQuery[k]

\* C35: a successful setQueryParams(newParams) leaves every schema key of
\* the router query that newParams does not name with its router value, also
\* a key with a schema default; so does a successful
\* clearQueryParams(keys, {resetToDefaults: true}) for the keys it does not
\* name.
C35_SetChangesOnlyNamedKeys ==
  [][/\ SetterResolves => OtherSchemaKeysKept(DOMAIN last.args[1])
     /\ ResetResolves => OtherSchemaKeysKept(last.args[1][1])]_vars

\* The step resolves, with true, a setter's navigation that was pending
\* while the step before resolved, with true, another setter's navigation:
\* the two calls were made before either navigation completed.
SecondOfTwoResolves ==
  /\ last.op = "navResolve"
  /\ last.result = "true"
  /\ last.args[1].kind = "setQueryParams"
  /\ last'.op = "navResolve"
  /\ last'.result = "true"
  /\ last'.args[1].kind = "setQueryParams"

\* C36: when the navigations of two setter calls that were pending together
\* have both succeeded, the router query holds every schema key that the
\* navigation completed first wrote: the one completed last drops none.
C36_ConcurrentSettersKeepBothKeys ==
  [][SecondOfTwoResolves =>
       \A k \in SchemaKeys(schema) \cap DOMAIN last.args[1].query :
         k \in DOMAIN rQuery']_vars

\* The step resolves, with true, the navigation of the remove-mode
\* clearQueryParams call that the step before made.
RemovalResolves ==
  /\ last.op = "clearQueryParams"
  /\ last.result = "pending"
  /\ ~Truthy(last.args[2], "resetToDefaults")
  /\ last'.op = "navResolve"
  /\ last'.result = "true"
  /\ last'.args = <<Written>>

\* The schema keys the step removes from the router query.
RemovedKeys == (SchemaKeys(schema) \cap DOMAIN rQuery) \ DOMAIN rQuery'

\* C37: after a successful remove-mode clearQueryParams, or a successful
\* setQueryParams, that removes a schema key from the router query, the
\* next getSnapshot() reports for that key nothing or its schema default,
\* whatever the latched initial query holds.
C37_RemovedKeyReadsAsDefault ==
  [][(RemovalResolves \/ SetterResolves) =>
       \A k \in RemovedKeys :
         Read(NextSnapshot, k) \in {Undefined, Read(SchemaDefaults, k)}]_vars

\* The keys whose router value is no longer the one that the effect run
\* which scheduled binding b's pending write-back saw: the keys that the
\* navigations completed since have changed.
ChangedSinceScheduled(b) ==
  {k \in (DOMAIN rQuery) \cup (DOMAIN bDebounced[b][1].seen) :
     Read(rQuery, k) # Read(bDebounced[b][1].seen, k)}

\* C38: when the debounce timer of a binding fires after navigations have
\* completed since its write-back was scheduled, the write-back issues no
\* navigation, or its navigation leaves every key those navigations changed
\* as the router holds it, or at least does not write the value of the
\* rendered state it was scheduled with.
C38_WriteBackNeverRevertsNewerUrl ==
  [][\A b \in Bindings : (TimerFires(b) /\ inflight' # inflight) =>
       \A k \in ChangedSinceScheduled(b) :
         \/ Read(WrittenNext.query, k) = Read(rQuery, k)
         \/ Read(WrittenNext.query, k) # Read(bDebounced[b][1].params, k)]_vars

\* The step resolves, with true, the navigation of the call
\* clearQueryParams(undefined, {resetToDefaults: true, ...}) that the step
\* before made.
ResetAllResolves ==
  /\ last.op = "clearQueryParams"
  /\ last.result = "pending"
  /\ last.args[1] = <<>>
  /\ Truthy(last.args[2], "resetToDefaults")
  /\ last'.op = "navResolve"
  /\ last'.result = "true"
  /\ last'.args = <<Written>>

\* C39: after a successful clearQueryParams(undefined, {resetToDefaults:
\* true}) every schema key without a default that held a non-empty value in
\* the router query is removed from it, or, when keepEmptyParameters is set,
\* holds an empty value.
C39_ResetClearsKeysWithoutDefault ==
  [][ResetAllResolves =>
       \A k \in SchemaKeys(schema) \cap DOMAIN rQuery :
         (~schema.shape[k].hasDefault /\ ~IsEmpty(rQuery[k])) =>
           \/ k \notin DOMAIN rQuery'
           \/ (KeptStoreWide \/ KeptPerCall) /\ IsEmpty(rQuery'[k])]_vars

=============================================================================
